---- MODULE Spec2Model ----
\* A model of the retrieval and ingestion core of math.ai (AI_logic):
\*   - search_curriculum          (src/engine/orchestrator.py, HEAD side)
\*   - extract_scanned_pdf         (src/retrieval/pdf_preprocessing.py)
\*   - run_ingestion               (src/retrieval/ingest_curriculum.py)
\*   - ask_math_ai / _build_prompt (src/engine/orchestrator.py, HEAD side)
\*
\* Conventions.
\*   Text is a sequence of tokens (strings); concatenation is \o.  A Python
\*   value that may be None is a set with at most one element: {} is None.
\*   A Python dict is a function whose DOMAIN is its key set.
\*   A vector distance (a float) is counted in tenths: 1.5 is 15.
EXTENDS Integers, Sequences, FiniteSets, TLC

VARIABLES
    \* ---- search_curriculum ----
    collection,     \* the module-level ChromaDB handle: {} (None) or {name}
    sc_pc,          \* "idle" | "returned" | "raised"
    sc_response,    \* the index response of the last call
    sc_result,      \* the (context_text, sources) pair the last call returned
    \* ---- extract_scanned_pdf ----
    num_pages,      \* len(doc) of the scanned PDF
    ocr,            \* what the OCR model answers for a page in the current run
    ocr_changed,    \* the OCR model has not answered the same in every run
    progress_file,  \* the JSON object of progress.json ({} when absent)
    ex_pc,          \* "idle" | "running" | "done" | "failed" | "killed"
    ex_phase,       \* "loop" | "ocr" | "save": where the run is in the for loop
    ex_progress,    \* the local progress dict
    ex_splits,      \* the splits the for loop has not finished yet
    ex_images,      \* global_images of the split being extracted
    ex_docs,        \* docs of the split being extracted
    ex_all,         \* all_documents
    ex_result,      \* the list the last finished run returned
    ex_error,       \* what aborted the last failed run
    ex_runs,        \* calls of extract_scanned_pdf so far
    loaded_keys,    \* the keys of progress when the current run loaded it
    raster_calls,   \* page -> calls of page_to_base64 in the current run
    ocr_calls,      \* page -> calls of the OCR model in the current run
    \* ---- run_ingestion ----
    data,           \* the chunks of the processed curriculum file
    index_exists,   \* the directory CHROMA_PATH exists
    index,          \* the records of the collection, in insertion order
    proc,           \* "none" | "loaded": ingest_curriculum is imported
    ing_pc,         \* "idle" | "running" | "done"
    ing_i,          \* the loop variable i of run_ingestion
    ing_index0,     \* the records of the collection when the run started
    ing_ok,         \* the batches (their i) this run has inserted
    ing_failed,     \* the batches (their i) this run has skipped
    ing_runs,       \* calls of run_ingestion so far
    ever_failed,    \* some batch of some run has failed
    next_uuid,      \* uuid4 values handed out so far
    \* ---- ask_math_ai ----
    claude_client,  \* the module-level Anthropic client: {} (None) or {client}
    ask_pc,         \* "idle" | "calling" | "returned" | "raised"
    ask_question,   \* the question of the request
    ask_history,    \* the history of the request
    ask_attachment, \* the attachment of the request: {} (None) or {image}
    ask_query,      \* search_query, as passed to search_curriculum
    ask_context,    \* context_observation
    ask_sources,    \* sources
    ask_prompt,     \* the user-turn prompt sent to the model
    ask_reply,      \* what the model answered: {} (nothing yet) or {text}
    ask_calls,      \* calls of claude_client.messages.create in the request
    ask_ocr_calls,  \* calls of the vision model in the request
    ask_ocr,        \* what the vision model did: {} (not called) or {outcome}
    ask_response,   \* the dict ask_math_ai returned
    \* ---- ask_math_ai_stream ----
    st_pc,          \* "idle" | "metadata" | "streaming" | "saving" | "ended" | "raised"
    st_question,    \* the question of the request
    st_history,     \* the history of the request
    st_attachment,  \* the attachment of the request
    st_query,       \* search_query, as passed to search_curriculum
    st_sources,     \* sources
    st_prompt,      \* the user-turn prompt sent to the model
    st_lines,       \* the NDJSON lines the generator has yielded
    st_calls,       \* calls of claude_client.messages.stream in the request
    st_ocr_calls,   \* calls of the vision model in the request
    \* ---- credits (server.py) ----
    credits,        \* the stored credit records: user_id -> record
    today,          \* _benin_today_iso(), as a day number
    DEV_SKIP_CLERK_VERIFY,  \* the development bypass
    CLERK_API_KEY,  \* {} (not configured) or {key}
    USE_MONGO,      \* MongoDB store (TRUE) or credits.json (FALSE)
    ADMIN_RESET_KEY,\* {} (not set) or {key}
    cr_request,     \* the last request to a credits endpoint
    cr_before,      \* the stored records when that request arrived
    cr_after,       \* the stored records when it was answered
    cr_response,    \* the response to that request
    cr_requests,    \* requests answered so far
    \* ---- /api/ask-stream: ask_stream_endpoint.generate (server.py) ----
    gen_pc,         \* "idle" | "reading" | "finished" | "failed"
    gen_i,          \* lines of the orchestrator read so far
    gen_header,     \* the session header of the request: {} or {header}
    gen_user,       \* user_id_from_request
    sse,            \* the events sent to the client
    chunk_count,    \* local of generate
    final_conclusion, \* local of generate
    stream_sources, \* local of generate
    gen_charges,    \* charges performed for the request
    interactions,   \* the records _log_interaction has appended
    \* ---- _extract_split: the two worker pools ----
    max_workers,    \* the width of the pools
    pool_next,      \* the next task of the open pool that no worker has taken
    pool_running,   \* the tasks of the open pool that workers are running
    pool_results,   \* task -> result, for the finished tasks of the open pool
    pool_images,    \* global_images, as (page number, image) pairs
    \* ---- /api/ask: ask_endpoint (server.py) ----
    ep_pc,          \* "idle" | "orchestrator" | "answered"
    ep_request,     \* the form field text and the JSON body of the request
    ep_text,        \* text, once the handler has resolved it
    ep_response,    \* the HTTP response: status and detail or body
    ep_orch_calls,  \* calls of ask_math_ai for the request
    \* ---- spend_credit_record in the threads of the executor ----
    race_pc,        \* thread -> "idle" | "loaded" | "saving" | "done"
    race_user,      \* thread -> the user_id of its call
    race_records,   \* thread -> records, as _load_json returned it
    race_result,    \* thread -> what its call returned: {} (None) or {rec}
    race_lock,      \* the thread that holds _storage_lock, 0 when free
    race_reset,     \* the user api_reset_credits has reset: {} or {user_id}
    \* ---- initialize_database (init_db.py) ----
    db_pc,          \* "idle" | "ingesting" | "returned"
    db_file,        \* the curriculum file of the call: "missing" | "empty" | "ok"
    db_result,      \* what the last call returned: "none" | "True" | "False"
    db_ingested,    \* the last call has run run_ingestion
    db_calls        \* calls of initialize_database so far

searchVars == <<collection, sc_pc, sc_response, sc_result>>

scanVars ==
    <<num_pages, ocr, ocr_changed, progress_file, ex_pc, ex_phase, ex_progress,
      ex_splits, ex_images, ex_docs, ex_all, ex_result, ex_error, ex_runs,
      loaded_keys, raster_calls, ocr_calls>>

ingestVars ==
    <<data, index_exists, index, proc, ing_pc, ing_i, ing_index0, ing_ok,
      ing_failed, ing_runs, ever_failed, next_uuid>>

askVars ==
    <<claude_client, ask_pc, ask_question, ask_history, ask_attachment, ask_query,
      ask_context, ask_sources, ask_prompt, ask_reply, ask_calls,
      ask_ocr_calls, ask_ocr, ask_response>>

streamVars ==
    <<st_pc, st_question, st_history, st_attachment, st_query, st_sources,
      st_prompt, st_lines, st_calls, st_ocr_calls>>

\* collection belongs to the retriever and is read by ask_math_ai.
searchCallVars == <<sc_pc, sc_response, sc_result>>

configVars == <<DEV_SKIP_CLERK_VERIFY, CLERK_API_KEY, USE_MONGO, ADMIN_RESET_KEY>>

creditVars ==
    <<credits, today, configVars, cr_request, cr_before, cr_after, cr_response,
      cr_requests>>

genVars ==
    <<gen_pc, gen_i, gen_header, gen_user, sse, chunk_count, final_conclusion,
      stream_sources, gen_charges, interactions>>

poolVars == <<max_workers, pool_next, pool_running, pool_results, pool_images>>

\* The state of the components that are modelled one at a time.
endpointVars == <<ep_pc, ep_request, ep_text, ep_response, ep_orch_calls>>

raceVars ==
    <<race_pc, race_user, race_records, race_result, race_lock, race_reset>>

dbVars == <<db_pc, db_file, db_result, db_ingested, db_calls>>

laterVars == <<poolVars, endpointVars, raceVars, dbVars>>

vars ==
    <<searchVars, scanVars, ingestVars, askVars, streamVars, creditVars, genVars,
      laterVars>>

\* What a step of one component leaves alone: the state of the others.
SearchFrame == UNCHANGED <<scanVars, ingestVars, askVars, streamVars, creditVars,
      genVars, laterVars>>

ScanFrame == UNCHANGED <<searchVars, ingestVars, askVars, streamVars, creditVars,
      genVars, laterVars>>

IngestFrame == UNCHANGED <<searchVars, scanVars, askVars, streamVars, creditVars,
      genVars, laterVars>>

AskFrame == UNCHANGED <<searchVars, scanVars, ingestVars, streamVars, creditVars,
      genVars, laterVars>>

StreamFrame == UNCHANGED <<searchVars, scanVars, ingestVars, askVars, creditVars,
      genVars, laterVars>>

CreditsFrame ==
    UNCHANGED <<searchVars, scanVars, ingestVars, askVars, streamVars, configVars,
                genVars, laterVars>>

\* generate reads the orchestrator's lines and charges the stored credits.
GenFrame ==
    UNCHANGED <<searchVars, scanVars, ingestVars, askVars, configVars, today,
                cr_request, cr_before, cr_after, cr_response, cr_requests,
                laterVars>>

None == {}

Some(x) == {x}

\* Tokens that hold white space only.
Whitespace == {"", " ", "\n"}

\* not text.strip()
IsBlank(text) == \A n \in 1..Len(text) : text[n] \in Whitespace

\* text.strip(), token by token
RECURSIVE LStrip(_)
LStrip(text) ==
    IF text # <<>> /\ Head(text) \in Whitespace THEN LStrip(Tail(text)) ELSE text

RECURSIVE RStrip(_)
RStrip(text) ==
    IF text # <<>> /\ text[Len(text)] \in Whitespace
    THEN RStrip(SubSeq(text, 1, Len(text) - 1)) ELSE text

Strip(text) == RStrip(LStrip(text))

\* dict.get(key, default)
Get(d, key, default) == IF key \in DOMAIN d THEN d[key] ELSE default

\* ---------------------------------------------------------------------
\* search_curriculum
\* ---------------------------------------------------------------------

\* n_results of collection.query: the index returns at most this many.
n_results == 4

\* The relevance threshold 1.5, in tenths.
DistanceThreshold == 15

CollectionName == "math_curriculum_benin"

\* The documents of the index, nearest first.
IndexDocs == <<"Le theoreme de Rolle", "Loi de Snell-Descartes",
               "Groupes et sous-groupes", "Limites et continuite">>

\* Metadata dicts an index record can carry (a key may be missing).
MetaDicts == { [source |-> "MTH1122.pdf", page |-> "12"], <<>> }

\* A metadata entry of a response: a dict, or None.
MetaEntries == {Some(m) : m \in MetaDicts} \cup {None}

\* A distance entry of a response: a number (in tenths), or None.
DistanceEntries == {Some(15), Some(16), None}

\* What collection.query can answer: it raises, or it returns the three
\* parallel lists (the distances list may be absent, or shorter).
RaiseResponse ==
    [kind |-> "raise", documents |-> <<>>, metadatas |-> <<>>,
     hasDistances |-> FALSE, distances |-> <<>>]

OkResponse(k, ms, h, ds) ==
    [kind |-> "ok", documents |-> SubSeq(IndexDocs, 1, k), metadatas |-> ms,
     hasDistances |-> h, distances |-> ds]

\* results.get("distances", [[]])[0]
DistancesOf(resp) == IF resp.hasDistances THEN resp.distances ELSE <<>>

\* A variant of ContextBlock that adds the text without its header.
ContextBlockWithoutHeader(source, page, doc) == <<"\n", doc, "\n">>

\* The block one surviving result adds to context_text.
ContextBlock(source, page, doc) ==
    <<"\n--- ", source, " (p.", page, ") ---\n", doc, "\n">>

SourceEntry(source, page, doc) ==
    [text |-> doc, source |-> source, page |-> page]

\* A variant of TooFar that also drops a result at the threshold itself.
TooFarAtThreshold(distance) == \E d \in distance : d >= DistanceThreshold

\* distance is not None and distance > 1.5
TooFar(distance) == \E d \in distance : d > DistanceThreshold

\* A variant of SearchLoop that puts each new entry of sources first.
RECURSIVE SearchLoopNewestFirst(_, _, _, _, _, _)
SearchLoopNewestFirst(documents, metadatas, distances, i, context_text, sources) ==
    IF i > Len(documents)
    THEN [outcome |-> "return", context_text |-> context_text,
          sources |-> sources]
    ELSE IF i > Len(metadatas) \/ metadatas[i] = None
    THEN [outcome |-> "raise", context_text |-> <<>>, sources |-> <<>>]
    ELSE IF distances # <<>> /\ i > Len(distances)
    THEN [outcome |-> "raise", context_text |-> <<>>, sources |-> <<>>]
    ELSE LET meta == CHOOSE m \in metadatas[i] : TRUE
             source == Get(meta, "source", "Unknown")
             page == Get(meta, "page", "?")
             distance == IF distances # <<>> THEN distances[i] ELSE None
         IN  IF TooFar(distance)
             THEN SearchLoopNewestFirst(documents, metadatas, distances, i + 1,
                                        context_text, sources)
             ELSE SearchLoopNewestFirst(documents, metadatas, distances, i + 1,
                             context_text \o ContextBlock(source, page, documents[i]),
                             <<SourceEntry(source, page, documents[i])>> \o sources)

\* One iteration of the for loop over enumerate(documents), from index i on,
\* with the context and sources built so far.  Returns a record whose
\* outcome is "return" or "raise" (an exception escaping the function).
RECURSIVE SearchLoop(_, _, _, _, _, _)
SearchLoop(documents, metadatas, distances, i, context_text, sources) ==
    IF i > Len(documents)
    THEN [outcome |-> "return", context_text |-> context_text,
          sources |-> sources]
    ELSE IF i > Len(metadatas) \/ metadatas[i] = None
    THEN \* metadatas[i] raises IndexError; None.get raises AttributeError
         [outcome |-> "raise", context_text |-> <<>>, sources |-> <<>>]
    ELSE IF distances # <<>> /\ i > Len(distances)
    THEN \* distances[i] raises IndexError
         [outcome |-> "raise", context_text |-> <<>>, sources |-> <<>>]
    ELSE LET meta == CHOOSE m \in metadatas[i] : TRUE
             source == Get(meta, "source", "Unknown")
             page == Get(meta, "page", "?")
             distance == IF distances # <<>> THEN distances[i] ELSE None
         IN  IF TooFar(distance)
             THEN SearchLoop(documents, metadatas, distances, i + 1,
                             context_text, sources)
             ELSE SearchLoop(documents, metadatas, distances, i + 1,
                             context_text \o ContextBlock(source, page, documents[i]),
                             Append(sources, SourceEntry(source, page, documents[i])))

EmptyResult == [outcome |-> "return", context_text |-> <<>>, sources |-> <<>>]

\* A variant of search_curriculum without the try/except around the query.
search_curriculum_unguarded(coll, resp) ==
    IF coll = None THEN EmptyResult
    ELSE IF resp.kind = "raise"
    THEN [outcome |-> "raise", context_text |-> <<>>, sources |-> <<>>]
    ELSE SearchLoop(resp.documents, resp.metadatas, DistancesOf(resp), 1,
                    <<>>, <<>>)

\* search_curriculum(query), for the handle coll and the answer resp of the
\* index to collection.query(query_texts=[query], n_results=4).
search_curriculum(coll, resp) ==
    IF coll = None THEN EmptyResult
    ELSE IF resp.kind = "raise" THEN EmptyResult
    ELSE SearchLoop(resp.documents, resp.metadatas, DistancesOf(resp), 1,
                    <<>>, <<>>)

NoResponse ==
    [kind |-> "none", documents |-> <<>>, metadatas |-> <<>>,
     hasDistances |-> FALSE, distances |-> <<>>]

\* No call of search_curriculum is under way.
SearchIdle ==
    /\ sc_pc = "idle"
    /\ sc_response = NoResponse
    /\ sc_result = EmptyResult

\* Module load: the handle is None when ChromaDB or Cohere is unavailable.
SearchInit ==
    /\ collection \in {None, Some(CollectionName)}
    /\ SearchIdle

\* The retriever as the other components see it: never called.
SearchQuiet ==
    /\ collection = None
    /\ SearchIdle

\* The caller's view of a finished call.
SearchDone(resp) ==
    LET r == search_curriculum(collection, resp) IN
    /\ sc_response' = resp
    /\ sc_result' = r
    /\ sc_pc' = IF r.outcome = "return" THEN "returned" ELSE "raised"
    /\ UNCHANGED collection
    /\ SearchFrame

\* A call of search_curriculum while the handle is None: no query is made.
SearchUnavailable ==
    /\ sc_pc = "idle"
    /\ collection = None
    /\ SearchDone(NoResponse)

\* A call of search_curriculum in which collection.query raises.
SearchQueryFails ==
    /\ sc_pc = "idle"
    /\ collection # None
    /\ SearchDone(RaiseResponse)

\* A call of search_curriculum in which collection.query answers.
SearchQueryAnswers ==
    /\ sc_pc = "idle"
    /\ collection # None
    /\ \E k \in 0..n_results, h \in BOOLEAN :
         \E j \in (IF h THEN 0..k ELSE {0}) :
           \E ms \in [1..k -> MetaEntries], ds \in [1..j -> DistanceEntries] :
             SearchDone(OkResponse(k, ms, h, ds))

\* The caller takes the result; the next request may call again.
SearchNextCall ==
    /\ sc_pc \in {"returned", "raised"}
    /\ sc_pc' = "idle"
    /\ sc_response' = NoResponse
    /\ sc_result' = EmptyResult
    /\ UNCHANGED collection
    /\ SearchFrame

SearchNext ==
    SearchUnavailable \/ SearchQueryFails \/ SearchQueryAnswers \/ SearchNextCall

\* ---------------------------------------------------------------------
\* extract_scanned_pdf
\* ---------------------------------------------------------------------

SPLIT_SIZE == 33

\* The largest scanned PDF of the model, in pages.
MaxPages == 67

\* Calls of extract_scanned_pdf in one behaviour.
MaxRuns == 3

pdf_path == "curriculum_data/raw/MTH1122.pdf"

\* os.path.basename(pdf_path)
pdf_name == "MTH1122.pdf"

Min(a, b) == IF a <= b THEN a ELSE b

DigitChars == <<"0", "1", "2", "3", "4", "5", "6", "7", "8", "9">>

\* str(n) for n >= 0: the decimal digits of n.
RECURSIVE Str(_)
Str(n) == IF n < 10 THEN <<DigitChars[n + 1]>>
          ELSE Str(n \div 10) \o <<DigitChars[(n % 10) + 1]>>

DigitValue(c) == (CHOOSE d \in 1..10 : DigitChars[d] = c) - 1

\* int(s) for a string of decimal digits.
RECURSIVE Int_(_, _)
Int_(s, acc) == IF s = <<>> THEN acc
                ELSE Int_(Tail(s), 10 * acc + DigitValue(Head(s)))

int(s) == Int_(s, 0)

\* f"{n:05d}"
RECURSIVE ZeroPad(_, _)
ZeroPad(s, width) == IF Len(s) >= width THEN s ELSE ZeroPad(<<"0">> \o s, width)

\* split_key = f"{pdf_name}::offset_{page_offset:05d}"
SplitKey(page_offset) == <<pdf_name, "::offset_">> \o ZeroPad(Str(page_offset), 5)

\* _split_pdf: the (start_page, pages) of every split, in order.
RECURSIVE SplitFrom(_, _)
SplitFrom(total, start) ==
    IF start >= total THEN <<>>
    ELSE <<[start |-> start, n |-> Min(start + SPLIT_SIZE, total) - start]>>
         \o SplitFrom(total, start + SPLIT_SIZE)

_split_pdf(total) == SplitFrom(total, 0)

\* The global page numbers of a split.
PagesOf(split) == split.start .. (split.start + split.n - 1)

\* The pages whose OCR answer the model lets vary: the first page of the
\* first and of the second split.  Every other page always reads well.
VaryingPages(total) == {0, SPLIT_SIZE} \cap (0..(total - 1))

OcrAnswers == {"v1", "v2", "blank", "fail"}

OcrAnswer(page) == IF page \in DOMAIN ocr THEN ocr[page] ELSE "v1"

\* The text the OCR model returns for a page in a given version.
PageText(page, version) == [of |-> page, version |-> version]

\* A variant of extract_text_with_claude without the text.strip() test.
extract_text_with_claude_keeps_blank(page_num) ==
    IF OcrAnswer(page_num) = "fail" THEN None
    ELSE Some([page_content |-> PageText(page_num, OcrAnswer(page_num)),
               metadata |-> [page |-> page_num]])

\* extract_text_with_claude((page_num, img)): the Document, or None when
\* the call raised or the text is blank.
extract_text_with_claude(page_num) ==
    IF OcrAnswer(page_num) \in {"fail", "blank"} THEN None
    ELSE Some([page_content |-> PageText(page_num, OcrAnswer(page_num)),
               metadata |-> [page |-> page_num]])

\* A variant of GlobalImages that keeps the local page numbers.
GlobalImagesWithoutOffset(split) == [local \in 1..split.n |-> local - 1]

\* global_images = [(page_offset + local_p, b64) for local_p in range(n)]
GlobalImages(split) == [local \in 1..split.n |-> split.start + (local - 1)]

\* [doc for doc in documents if doc is not None]
RECURSIVE NotNone(_)
NotNone(documents) ==
    IF documents = <<>> THEN <<>>
    ELSE IF Head(documents) = None THEN NotNone(Tail(documents))
    ELSE <<CHOOSE d \in Head(documents) : TRUE>> \o NotNone(Tail(documents))

\* The second half of _extract_split: OCR of every image, None dropped.
ExtractDocs(global_images) ==
    NotNone([i \in 1..Len(global_images) |->
                extract_text_with_claude(global_images[i])])

\* doc.metadata["source"] = pdf_path
WithSource(doc) ==
    [page_content |-> doc.page_content,
     metadata |-> [page |-> doc.metadata.page, source |-> pdf_path]]

\* The checkpoint entry {str(page): text for doc in docs}, in dict order.
CheckpointEntry(docs) ==
    [i \in 1..Len(docs) |-> <<Str(docs[i].metadata.page), docs[i].page_content>>]

\* A variant of CachedDocs that numbers the pages by their place in the entry.
CachedDocsLocalPages(cached) ==
    [i \in 1..Len(cached) |->
        [page_content |-> cached[i][2],
         metadata |-> [page |-> i - 1, source |-> pdf_path]]]

\* The Documents rebuilt from a cached entry (lines 148-152).
CachedDocs(cached) ==
    [i \in 1..Len(cached) |->
        [page_content |-> cached[i][2],
         metadata |-> [page |-> int(cached[i][1]), source |-> pdf_path]]]

\* sorted(all_documents, key=page): a stable insertion sort.
RECURSIVE InsertByPage(_, _)
InsertByPage(sorted, doc) ==
    IF sorted = <<>> THEN <<doc>>
    ELSE IF sorted[Len(sorted)].metadata.page <= doc.metadata.page
    THEN Append(sorted, doc)
    ELSE Append(InsertByPage(SubSeq(sorted, 1, Len(sorted) - 1), doc),
                sorted[Len(sorted)])

RECURSIVE SortedFrom(_, _)
SortedFrom(docs, acc) ==
    IF docs = <<>> THEN acc
    ELSE SortedFrom(Tail(docs), InsertByPage(acc, Head(docs)))

sorted_by_page(docs) == SortedFrom(docs, <<>>)

\* A variant of _load_progress that never finds the file.
_load_progress_missing == [k \in {} |-> <<>>]

\* _load_progress(): the content of progress.json, {} when it is absent.
_load_progress == progress_file

\* A variant of DictSet that rebinds the dict to the one new item.
DictSetAlone(d, key, value) == [k \in {key} |-> value]

\* dict assignment d[key] = value
DictSet(d, key, value) ==
    [k \in DOMAIN d \cup {key} |-> IF k = key THEN value ELSE d[k]]

EmptyDict == [k \in {} |-> <<>>]

NoCalls == [p \in 0..(num_pages - 1) |-> 0]

\* No run of extract_scanned_pdf has started.
ScanIdle ==
    /\ ocr_changed = FALSE
    /\ progress_file = EmptyDict
    /\ ex_pc = "idle"
    /\ ex_phase = "loop"
    /\ ex_progress = EmptyDict
    /\ ex_splits = <<>>
    /\ ex_images = <<>>
    /\ ex_docs = <<>>
    /\ ex_all = <<>>
    /\ ex_result = <<>>
    /\ ex_error = "none"
    /\ ex_runs = 0
    /\ loaded_keys = {}
    /\ raster_calls = NoCalls
    /\ ocr_calls = NoCalls

\* A scanned PDF and an OCR model, before the first run.
ScanInit ==
    /\ num_pages \in {1, SPLIT_SIZE, SPLIT_SIZE + 1, MaxPages}
    /\ ocr \in [VaryingPages(num_pages) -> OcrAnswers]
    /\ ScanIdle

\* The extractor as the other components see it: never run.
ScanQuiet ==
    /\ num_pages = 1
    /\ ocr = [p \in VaryingPages(1) |-> "v1"]
    /\ ScanIdle

envVars == <<num_pages, ocr, ocr_changed>>

\* extract_scanned_pdf is called: lines 132-139.  The OCR model may answer
\* in this run as it did before, or differently.
ScanStart ==
    /\ ex_pc # "running"
    /\ ex_runs < MaxRuns
    /\ \E answers \in [VaryingPages(num_pages) -> OcrAnswers] :
         /\ ocr' = answers
         /\ ocr_changed' = (ocr_changed \/ answers # ocr)
    /\ UNCHANGED num_pages
    /\ ex_runs' = ex_runs + 1
    /\ ex_pc' = "running"
    /\ ex_phase' = "loop"
    /\ ex_progress' = _load_progress
    /\ loaded_keys' = DOMAIN progress_file
    /\ ex_splits' = _split_pdf(num_pages)
    /\ ex_images' = <<>>
    /\ ex_docs' = <<>>
    /\ ex_all' = <<>>
    /\ ex_error' = "none"
    /\ raster_calls' = NoCalls
    /\ ocr_calls' = NoCalls
    /\ ScanFrame
    /\ UNCHANGED <<progress_file, ex_result>>

\* The split at the head of the loop is in progress: lines 145-154.
ScanReload ==
    /\ ex_pc = "running" /\ ex_phase = "loop"
    /\ ex_splits # <<>>
    /\ SplitKey(Head(ex_splits).start) \in DOMAIN ex_progress
    /\ ex_all' = ex_all \o CachedDocs(ex_progress[SplitKey(Head(ex_splits).start)])
    /\ ex_splits' = Tail(ex_splits)
    /\ ScanFrame
    /\ UNCHANGED <<envVars, progress_file, ex_pc, ex_phase, ex_progress,
                   ex_images, ex_docs, ex_result, ex_error, ex_runs,
                   loaded_keys, raster_calls, ocr_calls>>

\* _extract_split, first pool: every page of the split is rasterized
\* (lines 107-118).
ScanRasterize ==
    /\ ex_pc = "running" /\ ex_phase = "loop"
    /\ ex_splits # <<>>
    /\ SplitKey(Head(ex_splits).start) \notin DOMAIN ex_progress
    /\ ex_images' = GlobalImages(Head(ex_splits))
    /\ raster_calls' = [p \in DOMAIN raster_calls |->
                          IF p \in PagesOf(Head(ex_splits))
                          THEN raster_calls[p] + 1 ELSE raster_calls[p]]
    /\ ex_phase' = "ocr"
    /\ ScanFrame
    /\ UNCHANGED <<envVars, progress_file, ex_pc, ex_progress, ex_splits,
                   ex_docs, ex_all, ex_result, ex_error, ex_runs, loaded_keys,
                   ocr_calls>>

\* page_to_base64 raises for a page of the split: the exception leaves
\* _extract_split and extract_scanned_pdf (only the finally clause runs).
ScanRasterizeFails ==
    /\ ex_pc = "running" /\ ex_phase = "loop"
    /\ ex_splits # <<>>
    /\ SplitKey(Head(ex_splits).start) \notin DOMAIN ex_progress
    /\ raster_calls' = [p \in DOMAIN raster_calls |->
                          IF p \in PagesOf(Head(ex_splits))
                          THEN raster_calls[p] + 1 ELSE raster_calls[p]]
    /\ ex_pc' = "failed"
    /\ ex_error' = "rasterize"
    /\ ScanFrame
    /\ UNCHANGED <<envVars, progress_file, ex_phase, ex_progress, ex_splits,
                   ex_images, ex_docs, ex_all, ex_result, ex_runs, loaded_keys,
                   ocr_calls>>

\* _extract_split, second pool: one OCR call per image (lines 121-127).
ScanOcr ==
    /\ ex_pc = "running" /\ ex_phase = "ocr"
    /\ ex_docs' = ExtractDocs(ex_images)
    /\ ocr_calls' = [p \in DOMAIN ocr_calls |->
                        ocr_calls[p] + Cardinality({i \in 1..Len(ex_images) :
                                                       ex_images[i] = p})]
    /\ ex_phase' = "save"
    /\ ScanFrame
    /\ UNCHANGED <<envVars, progress_file, ex_pc, ex_progress, ex_splits,
                   ex_images, ex_all, ex_result, ex_error, ex_runs, loaded_keys,
                   raster_calls>>

\* A variant of _save_progress that writes nothing.
_save_progress_skipped(state) == UNCHANGED progress_file

\* _save_progress(state): progress.json holds state.
_save_progress(state) == progress_file' = state

\* The split is checkpointed: lines 160-170.
ScanCheckpoint ==
    /\ ex_pc = "running" /\ ex_phase = "save"
    /\ ex_all' = ex_all \o [i \in 1..Len(ex_docs) |-> WithSource(ex_docs[i])]
    /\ ex_progress' = DictSet(ex_progress, SplitKey(Head(ex_splits).start),
                              CheckpointEntry(ex_docs))
    /\ _save_progress(ex_progress')
    /\ ex_splits' = Tail(ex_splits)
    /\ ex_images' = <<>>
    /\ ex_docs' = <<>>
    /\ ex_phase' = "loop"
    /\ ScanFrame
    /\ UNCHANGED <<envVars, ex_pc, ex_result, ex_error, ex_runs, loaded_keys,
                   raster_calls, ocr_calls>>

\* The loop is over: line 172.
ScanReturn ==
    /\ ex_pc = "running" /\ ex_phase = "loop"
    /\ ex_splits = <<>>
    /\ ex_result' = sorted_by_page(ex_all)
    /\ ex_pc' = "done"
    /\ ScanFrame
    /\ UNCHANGED <<envVars, progress_file, ex_phase, ex_progress, ex_splits,
                   ex_images, ex_docs, ex_all, ex_error, ex_runs, loaded_keys,
                   raster_calls, ocr_calls>>

\* The process is interrupted between two steps of a run: what it held in
\* memory is gone, progress.json stays as it is.
ScanInterrupt ==
    /\ ex_pc = "running"
    /\ ex_pc' = "killed"
    /\ ScanFrame
    /\ UNCHANGED <<envVars, progress_file, ex_phase, ex_progress, ex_splits,
                   ex_images, ex_docs, ex_all, ex_result, ex_error, ex_runs,
                   loaded_keys, raster_calls, ocr_calls>>

ScanNext ==
    \/ ScanStart
    \/ ScanReload
    \/ ScanRasterize
    \/ ScanRasterizeFails
    \/ ScanOcr
    \/ ScanCheckpoint
    \/ ScanReturn
    \/ ScanInterrupt

\* ---------------------------------------------------------------------
\* _extract_split, worker by worker
\* ---------------------------------------------------------------------
\* Each of the two "with ThreadPoolExecutor(max_workers) as executor" blocks
\* hands one task per page to the pool, in page order.  A free worker takes
\* the oldest task nobody has taken; workers finish in any order.  The main
\* thread is inside list(executor.map(...)) and the exit of the block until
\* every task has finished.

\* The widest pool of the model.
MaxWorkers == 2

\* No pool is open.
PoolIdle ==
    /\ pool_next = 1
    /\ pool_running = {}
    /\ pool_results = EmptyDict
    /\ pool_images = <<>>

\* extract_scanned_pdf before a call with max_workers given by the caller.
PoolInit ==
    /\ max_workers \in 1..MaxWorkers
    /\ PoolIdle

\* The pools as the other components see them: never opened.
PoolQuiet ==
    /\ max_workers = 1
    /\ PoolIdle

\* What a step of a pool leaves alone.
PoolFrame ==
    UNCHANGED <<searchVars, ingestVars, askVars, streamVars, creditVars, genVars,
                endpointVars, raceVars, dbVars>>

\* page_to_base64(split_path, page_num): the local page number and the
\* image of that page of the split, which shows page start + page_num of
\* the PDF.
page_to_base64(split, page_num) ==
    [page_num |-> page_num, img |-> split.start + page_num]

\* A variant of RemapToGlobal that keeps the local page numbers.
RemapKeepsLocal(page_offset, local_images) ==
    [i \in 1..Len(local_images) |->
        [page_num |-> local_images[i].page_num, img |-> local_images[i].img]]

\* global_images = [(page_offset + local_p, b64) for local_p, b64 in local_images]
RemapToGlobal(page_offset, local_images) ==
    [i \in 1..Len(local_images) |->
        [page_num |-> page_offset + local_images[i].page_num,
         img |-> local_images[i].img]]

\* extract_text_with_claude(page_data, client): the model reads the image,
\* the Document carries the page number that came with it.
ExtractTextOfImage(page_data) ==
    IF OcrAnswer(page_data.img) \in {"fail", "blank"} THEN None
    ELSE Some([page_content |-> PageText(page_data.img, OcrAnswer(page_data.img)),
               metadata |-> [page |-> page_data.page_num]])

\* list(executor.map(...)) has every result and the with block is left:
\* all n tasks were taken and none is running.
PoolJoined(n) == pool_next > n /\ pool_running = {}

\* The results of the n tasks in the order of the tasks (executor.map).
ResultsInTaskOrder(n) == [i \in 1..n |-> pool_results[i]]

\* A worker is free and a task is waiting.
WorkerTakesTask(n) ==
    /\ pool_next <= n
    /\ Cardinality(pool_running) < max_workers
    /\ pool_running' = pool_running \cup {pool_next}
    /\ pool_next' = pool_next + 1

\* The split at the head of the loop is not in progress: the first pool
\* opens with one task per page (lines 107-115).
PoolRasterOpens ==
    /\ ex_pc = "running" /\ ex_phase = "loop"
    /\ ex_splits # <<>>
    /\ SplitKey(Head(ex_splits).start) \notin DOMAIN ex_progress
    /\ ex_phase' = "raster"
    /\ pool_next' = 1
    /\ pool_running' = {}
    /\ pool_results' = EmptyDict
    /\ pool_images' = <<>>
    /\ PoolFrame
    /\ UNCHANGED <<envVars, progress_file, ex_pc, ex_progress, ex_splits,
                   ex_images, ex_docs, ex_all, ex_result, ex_error, ex_runs,
                   loaded_keys, raster_calls, ocr_calls, max_workers>>

\* A worker starts page_to_base64 for the next page.
PoolRasterStarts ==
    /\ ex_pc = "running" /\ ex_phase = "raster"
    /\ WorkerTakesTask(Head(ex_splits).n)
    /\ raster_calls' = [raster_calls EXCEPT
                           ![Head(ex_splits).start + pool_next - 1] = @ + 1]
    /\ PoolFrame
    /\ UNCHANGED <<envVars, progress_file, ex_pc, ex_phase, ex_progress,
                   ex_splits, ex_images, ex_docs, ex_all, ex_result, ex_error,
                   ex_runs, loaded_keys, ocr_calls, max_workers, pool_results,
                   pool_images>>

\* A worker returns from page_to_base64.
PoolRasterEnds ==
    /\ ex_pc = "running" /\ ex_phase = "raster"
    /\ \E task \in pool_running :
         /\ pool_results' = DictSet(pool_results, task,
                                    page_to_base64(Head(ex_splits), task - 1))
         /\ pool_running' = pool_running \ {task}
    /\ PoolFrame
    /\ UNCHANGED <<scanVars, max_workers, pool_next, pool_images>>

\* The first pool is left with local_images; the pages are renumbered and
\* the second pool opens with one task per image (lines 116-124).
PoolOcrOpens ==
    /\ ex_pc = "running" /\ ex_phase = "raster"
    /\ PoolJoined(Head(ex_splits).n)
    /\ pool_images' = RemapToGlobal(Head(ex_splits).start,
                                    ResultsInTaskOrder(Head(ex_splits).n))
    /\ ex_images' = [i \in 1..Len(pool_images') |-> pool_images'[i].page_num]
    /\ ex_phase' = "ocr"
    /\ pool_next' = 1
    /\ pool_running' = {}
    /\ pool_results' = EmptyDict
    /\ PoolFrame
    /\ UNCHANGED <<envVars, progress_file, ex_pc, ex_progress, ex_splits,
                   ex_docs, ex_all, ex_result, ex_error, ex_runs, loaded_keys,
                   raster_calls, ocr_calls, max_workers>>

\* A worker starts extract_text_with_claude for the next image.
PoolOcrStarts ==
    /\ ex_pc = "running" /\ ex_phase = "ocr"
    /\ WorkerTakesTask(Len(pool_images))
    /\ ocr_calls' = [ocr_calls EXCEPT ![pool_images[pool_next].img] = @ + 1]
    /\ PoolFrame
    /\ UNCHANGED <<envVars, progress_file, ex_pc, ex_phase, ex_progress,
                   ex_splits, ex_images, ex_docs, ex_all, ex_result, ex_error,
                   ex_runs, loaded_keys, raster_calls, max_workers,
                   pool_results, pool_images>>

\* A worker returns from extract_text_with_claude: a Document or None.
PoolOcrEnds ==
    /\ ex_pc = "running" /\ ex_phase = "ocr"
    /\ \E task \in pool_running :
         /\ pool_results' = DictSet(pool_results, task,
                                    ExtractTextOfImage(pool_images[task]))
         /\ pool_running' = pool_running \ {task}
    /\ PoolFrame
    /\ UNCHANGED <<scanVars, max_workers, pool_next, pool_images>>

\* The second pool is left; _extract_split returns the documents that are
\* not None (lines 125-127).
PoolReturns ==
    /\ ex_pc = "running" /\ ex_phase = "ocr"
    /\ PoolJoined(Len(pool_images))
    /\ ex_docs' = NotNone(ResultsInTaskOrder(Len(pool_images)))
    /\ ex_phase' = "save"
    /\ pool_next' = 1
    /\ pool_running' = {}
    /\ pool_results' = EmptyDict
    /\ PoolFrame
    /\ UNCHANGED <<envVars, progress_file, ex_pc, ex_progress, ex_splits,
                   ex_images, ex_all, ex_result, ex_error, ex_runs, loaded_keys,
                   raster_calls, ocr_calls, max_workers, pool_images>>

\* extract_scanned_pdf with the pools of _extract_split taken worker by
\* worker; the steps of the main thread are those of ScanNext.
PoolNext ==
    \/ ScanStart
    \/ ScanReload
    \/ PoolRasterOpens
    \/ PoolRasterStarts
    \/ PoolRasterEnds
    \/ PoolOcrOpens
    \/ PoolOcrStarts
    \/ PoolOcrEnds
    \/ PoolReturns
    \/ ScanCheckpoint
    \/ ScanReturn

\* ---------------------------------------------------------------------
\* ingest_curriculum: module load and run_ingestion
\* ---------------------------------------------------------------------

batch_size == 96

\* The largest curriculum file of the model, in chunks.
MaxChunks == 193

\* Calls of run_ingestion in one behaviour.
MaxIngestRuns == 2

\* The k-th chunk of the processed curriculum file (a JSON object).
Chunk(k) ==
    [id |-> <<"chunk_">> \o Str(k),
     text |-> [chunk |-> k],
     source |-> "MTH1122.pdf",
     page |-> (k \div 4) + 1]

\* A variant of Batch whose slice starts one chunk early.
BatchOverlapping(chunks, i) ==
    SubSeq(chunks, IF i = 0 THEN 1 ELSE i, Min(i + batch_size, Len(chunks)))

\* batch = data[i : i + batch_size]
Batch(chunks, i) == SubSeq(chunks, i + 1, Min(i + batch_size, Len(chunks)))

\* The metadata run_ingestion builds for an item (lines 62-66).
MetaOf(item) ==
    [source |-> Get(item, "source", "unknown"),
     page |-> Get(item, "page", 0),
     original_id |-> Get(item, "id", <<"unknown">>)]

\* The records collection.add stores for a batch: ids are fresh uuids.
BatchRecords(batch, uuid0) ==
    [n \in 1..Len(batch) |->
        [id |-> uuid0 + n,
         document |-> batch[n].text,
         metadata |-> MetaOf(batch[n])]]

\* No process has imported ingest_curriculum.
IngestIdle ==
    /\ proc = "none"
    /\ ing_pc = "idle"
    /\ ing_i = 0
    /\ ing_index0 = <<>>
    /\ ing_ok = {}
    /\ ing_failed = {}
    /\ ing_runs = 0
    /\ ever_failed = FALSE
    /\ next_uuid = 0

\* A curriculum file and an index directory, before any ingestion.
IngestInit ==
    /\ \E total \in {1, batch_size, batch_size + 1, MaxChunks} :
          data = [k \in 1..total |-> Chunk(k)]
    /\ index_exists = FALSE
    /\ index = <<>>
    /\ IngestIdle

\* The indexer as the other components see it: never run.
IngestQuiet ==
    /\ data = <<Chunk(1)>>
    /\ index_exists = FALSE
    /\ index = <<>>
    /\ IngestIdle

\* A process imports ingest_curriculum: CHROMA_PATH is removed when it
\* exists, then PersistentClient creates it (lines 18-27).
IngestImport ==
    /\ proc = "none"
    /\ ing_runs < MaxIngestRuns
    /\ proc' = "loaded"
    /\ index' = <<>>
    /\ index_exists' = TRUE
    /\ ing_pc' = "idle"
    /\ IngestFrame
    /\ UNCHANGED <<data, ing_i, ing_index0, ing_ok, ing_failed, ing_runs,
                   ever_failed, next_uuid>>

\* A process imports ingest_curriculum and shutil.rmtree raises: the
\* exception is printed and PersistentClient opens the directory as it is.
IngestImportKeepsIndex ==
    /\ proc = "none"
    /\ ing_runs < MaxIngestRuns
    /\ index_exists
    /\ proc' = "loaded"
    /\ ing_pc' = "idle"
    /\ IngestFrame
    /\ UNCHANGED <<data, index_exists, index, ing_i, ing_index0, ing_ok,
                   ing_failed, ing_runs, ever_failed, next_uuid>>

\* The process that imported ingest_curriculum ends.
IngestExit ==
    /\ proc = "loaded"
    /\ ing_pc # "running"
    /\ proc' = "none"
    /\ IngestFrame
    /\ UNCHANGED <<data, index_exists, index, ing_pc, ing_i, ing_index0,
                   ing_ok, ing_failed, ing_runs, ever_failed, next_uuid>>

\* run_ingestion(json_file_path) is called: lines 29-46.
IngestStart ==
    /\ proc = "loaded"
    /\ ing_pc # "running"
    /\ ing_runs < MaxIngestRuns
    /\ ing_runs' = ing_runs + 1
    /\ ing_pc' = "running"
    /\ ing_i' = 0
    /\ ing_index0' = index
    /\ ing_ok' = {}
    /\ ing_failed' = {}
    /\ IngestFrame
    /\ UNCHANGED <<data, index_exists, index, proc, ever_failed, next_uuid>>

\* One turn of the loop in which co.embed and collection.add succeed.
IngestBatch ==
    /\ ing_pc = "running"
    /\ ing_i < Len(data)
    /\ index' = index \o BatchRecords(Batch(data, ing_i), next_uuid)
    /\ next_uuid' = next_uuid + Len(Batch(data, ing_i))
    /\ ing_ok' = ing_ok \cup {ing_i}
    /\ ing_i' = ing_i + batch_size
    /\ IngestFrame
    /\ UNCHANGED <<data, index_exists, proc, ing_pc, ing_index0, ing_failed,
                   ing_runs, ever_failed>>

\* A variant of IngestBatchFails that leaves the loop at the failed batch.
IngestBatchFailsBreaks ==
    /\ ing_pc = "running"
    /\ ing_i < Len(data)
    /\ next_uuid' = next_uuid + Len(Batch(data, ing_i))
    /\ ing_failed' = ing_failed \cup {ing_i}
    /\ ever_failed' = TRUE
    /\ ing_pc' = "done"
    /\ IngestFrame
    /\ UNCHANGED <<data, index_exists, index, proc, ing_i, ing_index0, ing_ok,
                   ing_runs>>

\* One turn of the loop in which co.embed or collection.add raises: the
\* exception is printed (lines 91-92) and the loop goes on.
IngestBatchFails ==
    /\ ing_pc = "running"
    /\ ing_i < Len(data)
    /\ next_uuid' = next_uuid + Len(Batch(data, ing_i))
    /\ ing_failed' = ing_failed \cup {ing_i}
    /\ ever_failed' = TRUE
    /\ ing_i' = ing_i + batch_size
    /\ IngestFrame
    /\ UNCHANGED <<data, index_exists, index, proc, ing_pc, ing_index0, ing_ok,
                   ing_runs>>

\* range(0, total_docs, batch_size) is exhausted: line 94.
IngestReturn ==
    /\ ing_pc = "running"
    /\ ing_i >= Len(data)
    /\ ing_pc' = "done"
    /\ IngestFrame
    /\ UNCHANGED <<data, index_exists, index, proc, ing_i, ing_index0, ing_ok,
                   ing_failed, ing_runs, ever_failed, next_uuid>>

IngestNext ==
    \/ IngestImport
    \/ IngestImportKeepsIndex
    \/ IngestExit
    \/ IngestStart
    \/ IngestBatch
    \/ IngestBatchFails
    \/ IngestReturn

\* ---------------------------------------------------------------------
\* extract_image_content, _build_prompt, ask_math_ai
\* ---------------------------------------------------------------------

\* Questions a request can carry: one of the curriculum, one outside of
\* it, and a blank one.
Questions == {<<"derivee de x^2">>, <<"recette de cuisine">>, <<" ">>}

Histories == {<<>>, <<"Eleve: bonjour">>}

Attachments == {None, Some([type |-> "image/png", image |-> "aW1hZ2U="])}

\* What the vision model does with the image: it raises, or it answers
\* with this text.
OcrOutcomes == {[raises |-> TRUE, text |-> <<>>],
                [raises |-> FALSE, text |-> <<" ">>],
                [raises |-> FALSE, text |-> <<"x^2 + 1 = 0", "\n">>]}

\* The answers of the index ask_math_ai is run against.
AskIndexResponses ==
    { RaiseResponse,
      OkResponse(0, <<>>, TRUE, <<>>),
      OkResponse(1, <<Some([source |-> "MTH1122.pdf", page |-> "12"])>>,
                 TRUE, <<Some(15)>>),
      OkResponse(1, <<Some([source |-> "MTH1122.pdf", page |-> "12"])>>,
                 TRUE, <<Some(16)>>),
      OkResponse(2, <<Some([source |-> "MTH1122.pdf", page |-> "12"]), Some(<<>>)>>,
                 FALSE, <<>>),
      OkResponse(1, <<None>>, TRUE, <<Some(15)>>) }

\* The refusal the system prompt tells the model to give (line 377).
RefusalMessage == <<"Je ne peux pas repondre a cette question.">>

\* What the chat model can answer.
ModelReplies == {RefusalMessage, <<"## MTH1122 - Derivee", "d/dx x^2 = 2x">>}

\* The code fence of the section is written ~~~ here.
ImageSectionHead == "## CONTENU DE L'IMAGE (OCR automatique)\n~~~\n"

ImageSectionTail == "\n~~~\n"

ImageRecapInstruction == <<"### ETAPE 0b - RECAPITULATIF IMAGE (OBLIGATOIRE si image fournie)">>

NoImageRecap == <<"*(Pas d'image fournie - ignore l'etape 0b)*">>

ContextMarkerNA == <<"N/A - aucun contenu pertinent trouve.">>

NoImage == [raw_text |-> <<>>, image_section |-> <<>>,
            image_recap_instruction |-> <<>>]

\* extract_image_content(attachment), for the given behaviour of the
\* vision model.
extract_image_content(attachment, client, outcome) ==
    IF attachment = None \/ client = None THEN NoImage
    ELSE IF outcome.raises THEN NoImage
    ELSE LET extracted == Strip(outcome.text) IN
         [raw_text |-> extracted,
          image_section |-> <<ImageSectionHead>> \o extracted \o <<ImageSectionTail>>,
          image_recap_instruction |-> ImageRecapInstruction]

\* A variant of OcrCalls that looks at the attachment alone.
OcrCallsForAnyAttachment(attachment, client) ==
    IF attachment = None THEN 0 ELSE 1

\* The calls of the vision model extract_image_content(attachment) makes
\* (lines 696-700).
OcrCalls(attachment, client) ==
    IF attachment = None \/ client = None THEN 0 ELSE 1

\* The fixed parts of TUTOR_PROMPT around its four slots.
TutorPromptHead == <<"## CONTEXTE DU PROGRAMME (extrait ChromaDB - documents officiels)\n">>

TutorPromptSeparator == <<"\n\n---\n">>

TutorPromptQuestion == <<"\n## QUESTION DE L'ELEVE\n">>

TutorPromptProtocol == <<"\n\n---\n## PROTOCOLE DE REPONSE\n### ETAPE 0 - VERIFICATION ET TRIAGE DU CONTEXTE (CAS 1-4)\n">>

TutorPromptFormat == <<"\n### ETAPE 1 - ANALYSE ... ### FORMAT OBLIGATOIRE\n">>

\* TUTOR_PROMPT.format(context_str, question, image_section, image_recap_instruction)
TutorPromptFormatted(context_str, question, image_section, image_recap_instruction) ==
    TutorPromptHead \o context_str \o TutorPromptSeparator \o image_section
    \o TutorPromptQuestion \o question \o TutorPromptProtocol
    \o image_recap_instruction \o TutorPromptFormat

\* A variant of _build_prompt that passes the context through as it is.
_build_prompt_raw_context(question, context_observation, image_section, image_recap_instruction) ==
    TutorPromptFormatted(
        context_observation,
        question, image_section,
        IF image_recap_instruction = <<>> THEN NoImageRecap
        ELSE image_recap_instruction)

_build_prompt(question, context_observation, image_section, image_recap_instruction) ==
    TutorPromptFormatted(
        IF ~IsBlank(context_observation) THEN context_observation
        ELSE ContextMarkerNA,
        question, image_section,
        IF image_recap_instruction = <<>> THEN NoImageRecap
        ELSE image_recap_instruction)

\* A variant of SearchQuery that searches for the question alone.
SearchQueryWithoutImage(question, img_text) == question

\* search_query (lines 881-889)
SearchQuery(question, img_text) ==
    IF img_text = <<>> THEN question
    ELSE IF ~IsBlank(question) THEN Strip(question \o <<"\n">> \o img_text)
    ELSE img_text

Step(title, explanation) ==
    [title |-> title, explanation |-> explanation, equations |-> None]

\* The dict returned when claude_client is None (lines 892-910).
UnavailableResponse(question) ==
    [partie |-> "Erreur", problemStatement |-> question,
     steps |-> <<Step("Unavailable", <<"ANTHROPIC_API_KEY non configure.">>)>>,
     conclusion |-> None, sources |-> <<>>]

\* The dict returned with the answer of the model (lines 946-958).
AnswerResponse(question, final_answer, sources) ==
    [partie |-> "Mathematiques / Physique", problemStatement |-> question,
     steps |-> <<Step("Explication Professeur Bio", final_answer)>>,
     conclusion |-> Some("Voir explication ci-dessus"), sources |-> sources]

\* The dict returned when the model call raised (lines 959-968).
ErrorResponse(question, error) ==
    [partie |-> "Erreur", problemStatement |-> question,
     steps |-> <<Step("Erreur", <<"Erreur Claude: ", error>>)>>,
     conclusion |-> None, sources |-> <<>>]

NoAskResponse ==
    [partie |-> "", problemStatement |-> <<>>, steps |-> <<>>,
     conclusion |-> None, sources |-> <<>>]

\* No request is being answered.
AskIdle ==
    /\ ask_pc = "idle"
    /\ ask_question = <<>>
    /\ ask_history = <<>>
    /\ ask_attachment = None
    /\ ask_query = <<>>
    /\ ask_context = <<>>
    /\ ask_sources = <<>>
    /\ ask_prompt = <<>>
    /\ ask_reply = None
    /\ ask_calls = 0
    /\ ask_ocr_calls = 0
    /\ ask_ocr = None
    /\ ask_response = NoAskResponse

\* Module load: claude_client stays None without ANTHROPIC_API_KEY.
AskInit ==
    /\ claude_client \in {None, Some("Anthropic")}
    /\ AskIdle

\* The orchestrator as the other components see it: never called.
AskQuiet ==
    /\ claude_client = None
    /\ AskIdle

\* ask_math_ai(question, history, attachment) up to the model call:
\* OCR of the attachment, retrieval, the claude_client test and the
\* prompt (lines 874-926).
AskUpToModelCall(question, history, attachment, outcome, resp) ==
    LET img == extract_image_content(attachment, claude_client, outcome)
        search_query == SearchQuery(question, img.raw_text)
        found == search_curriculum(collection, resp)
    IN  /\ ask_question' = question
        /\ ask_history' = history
        /\ ask_attachment' = attachment
        /\ ask_query' = search_query
        /\ ask_reply' = None
        /\ ask_calls' = 0
        /\ ask_ocr_calls' = OcrCalls(attachment, claude_client)
        /\ ask_ocr' = IF OcrCalls(attachment, claude_client) = 0 THEN None
                      ELSE Some(outcome)
        /\ IF found.outcome = "raise"
           THEN /\ ask_pc' = "raised"
                /\ ask_context' = <<>>
                /\ ask_sources' = <<>>
                /\ ask_prompt' = <<>>
                /\ ask_response' = NoAskResponse
           ELSE /\ ask_context' = found.context_text
                /\ ask_sources' = found.sources
                /\ IF claude_client = None
                   THEN /\ ask_pc' = "returned"
                        /\ ask_prompt' = <<>>
                        /\ ask_response' = UnavailableResponse(question)
                   ELSE /\ ask_pc' = "calling"
                        /\ ask_prompt' = _build_prompt(question, found.context_text,
                                                       img.image_section,
                                                       img.image_recap_instruction)
                        /\ ask_response' = NoAskResponse

\* A request arrives and ask_math_ai runs up to the model call. The two
\* entry points share no state of a request; runs show one request at a
\* time.
AskCall ==
    /\ ask_pc = "idle"
    /\ st_pc = "idle"
    /\ \E question \in Questions, history \in Histories,
          attachment \in Attachments, outcome \in OcrOutcomes,
          resp \in AskIndexResponses :
            AskUpToModelCall(question, history, attachment, outcome, resp)
    /\ AskFrame
    /\ UNCHANGED claude_client

\* claude_client.messages.create answers: lines 928-958.
AskModelAnswers ==
    /\ ask_pc = "calling"
    /\ \E final_answer \in ModelReplies :
          /\ ask_reply' = Some(final_answer)
          /\ ask_response' = AnswerResponse(ask_question, final_answer, ask_sources)
    /\ ask_calls' = ask_calls + 1
    /\ ask_pc' = "returned"
    /\ AskFrame
    /\ UNCHANGED <<claude_client, ask_question, ask_history, ask_attachment, ask_query,
                   ask_context, ask_sources, ask_prompt, ask_ocr_calls, ask_ocr>>

\* A variant of AskModelFails that lets the exception out.
AskModelFailsRaises ==
    /\ ask_pc = "calling"
    /\ ask_calls' = ask_calls + 1
    /\ ask_pc' = "raised"
    /\ AskFrame
    /\ UNCHANGED <<claude_client, ask_question, ask_history, ask_attachment,
                   ask_query, ask_context, ask_sources, ask_prompt, ask_reply,
                   ask_ocr_calls, ask_ocr, ask_response>>

\* claude_client.messages.create raises: lines 959-968.
AskModelFails ==
    /\ ask_pc = "calling"
    /\ ask_response' = ErrorResponse(ask_question, "overloaded_error")
    /\ ask_calls' = ask_calls + 1
    /\ ask_pc' = "returned"
    /\ AskFrame
    /\ UNCHANGED <<claude_client, ask_question, ask_history, ask_attachment, ask_query,
                   ask_context, ask_sources, ask_prompt, ask_reply, ask_ocr_calls, ask_ocr>>

\* The caller has the response; the next request may come.
AskNextRequest ==
    /\ ask_pc \in {"returned", "raised"}
    /\ ask_pc' = "idle"
    /\ ask_question' = <<>>
    /\ ask_history' = <<>>
    /\ ask_attachment' = None
    /\ ask_query' = <<>>
    /\ ask_context' = <<>>
    /\ ask_sources' = <<>>
    /\ ask_prompt' = <<>>
    /\ ask_reply' = None
    /\ ask_calls' = 0
    /\ ask_ocr_calls' = 0
    /\ ask_ocr' = None
    /\ ask_response' = NoAskResponse
    /\ AskFrame
    /\ UNCHANGED claude_client

AskNext == AskCall \/ AskModelAnswers \/ AskModelFails \/ AskNextRequest

\* ---------------------------------------------------------------------
\* ask_math_ai_stream
\* ---------------------------------------------------------------------

\* The most text pieces a model stream delivers.
MaxTokens == 2

\* The text pieces the model stream can deliver.
ModelTokens == {"La derivee de x^2", " est 2x", ""}

\* json.dumps(obj) + "\n": a line that json.loads turns back into the
\* dict obj.
NdjsonLine(obj) == [kind |-> "json", isdict |-> TRUE, obj |-> obj]

ErrorLine(error_msg) == NdjsonLine([error |-> error_msg])

\* Lines 1013-1021.
MetadataLine(question, sources) ==
    NdjsonLine([metadata |-> [partie |-> "Mathematiques / Physique",
                              problemStatement |-> question,
                              sources |-> sources]])

\* Line 1032.
TokenLine(text) == NdjsonLine([token |-> text])

\* Lines 1034-1040.
DoneLine(sources) ==
    NdjsonLine([done |-> TRUE, conclusion |-> "Voir explication ci-dessus",
                sources |-> sources])

\* No streaming request is being answered.
StreamIdle ==
    /\ st_pc = "idle"
    /\ st_question = <<>>
    /\ st_history = <<>>
    /\ st_attachment = None
    /\ st_query = <<>>
    /\ st_sources = <<>>
    /\ st_prompt = <<>>
    /\ st_lines = <<>>
    /\ st_calls = 0
    /\ st_ocr_calls = 0

\* ask_math_ai_stream(question, history, attachment) up to its first
\* yield: OCR of the attachment, retrieval, the claude_client test, the
\* prompt and the metadata line (lines 971-1021).
StreamUpToFirstYield(question, history, attachment, outcome, resp) ==
    LET img == extract_image_content(attachment, claude_client, outcome)
        search_query == SearchQuery(question, img.raw_text)
        found == search_curriculum(collection, resp)
    IN  /\ st_question' = question
        /\ st_history' = history
        /\ st_attachment' = attachment
        /\ st_query' = search_query
        /\ st_calls' = 0
        /\ st_ocr_calls' = OcrCalls(attachment, claude_client)
        /\ IF found.outcome = "raise"
           THEN /\ st_pc' = "raised"
                /\ st_sources' = <<>>
                /\ st_prompt' = <<>>
                /\ st_lines' = <<>>
           ELSE /\ st_sources' = found.sources
                /\ IF claude_client = None
                   THEN /\ st_pc' = "ended"
                        /\ st_prompt' = <<>>
                        /\ st_lines' = <<ErrorLine(<<"ANTHROPIC_API_KEY non configure.">>)>>
                   ELSE /\ st_pc' = "metadata"
                        /\ st_prompt' = _build_prompt(question, found.context_text,
                                                      img.image_section,
                                                      img.image_recap_instruction)
                        /\ st_lines' = <<MetadataLine(question, found.sources)>>

\* A streaming request arrives and the generator runs to its first yield.
StreamCall ==
    /\ st_pc = "idle"
    /\ ask_pc = "idle"
    /\ \E question \in Questions, history \in Histories,
          attachment \in Attachments, outcome \in OcrOutcomes,
          resp \in AskIndexResponses :
            StreamUpToFirstYield(question, history, attachment, outcome, resp)
    /\ StreamFrame

\* A generator runs only while its consumer waits for the next line: a
\* caller that iterates directly, or generate once it has handled every
\* line yielded so far.
GeneratorResumed ==
    \/ gen_pc = "idle"
    \/ gen_pc = "reading" /\ gen_i = Len(st_lines)

\* claude_client.messages.stream(...) opens the stream (lines 1024-1029).
StreamOpens ==
    /\ st_pc = "metadata"
    /\ GeneratorResumed
    /\ st_pc' = "streaming"
    /\ st_calls' = st_calls + 1
    /\ StreamFrame
    /\ UNCHANGED <<st_question, st_history, st_attachment, st_query,
                   st_sources, st_prompt, st_lines, st_ocr_calls>>

\* claude_client.messages.stream(...) raises (lines 1024-1029, 1051-1054).
StreamOpenFails ==
    /\ st_pc = "metadata"
    /\ GeneratorResumed
    /\ st_pc' = "ended"
    /\ st_calls' = st_calls + 1
    /\ st_lines' = Append(st_lines, ErrorLine(<<"Erreur Claude: ", "overloaded_error">>))
    /\ StreamFrame
    /\ UNCHANGED <<st_question, st_history, st_attachment, st_query,
                   st_sources, st_prompt, st_ocr_calls>>

\* The tokens yielded so far.
TokensYielded == Len(st_lines) - 1

\* The model delivers a piece of text (lines 1030-1032).
StreamToken ==
    /\ st_pc = "streaming"
    /\ GeneratorResumed
    /\ TokensYielded < MaxTokens
    /\ \E text \in ModelTokens : st_lines' = Append(st_lines, TokenLine(text))
    /\ StreamFrame
    /\ UNCHANGED <<st_pc, st_question, st_history, st_attachment, st_query,
                   st_sources, st_prompt, st_calls, st_ocr_calls>>

\* The model stream ends and the done line is yielded (lines 1034-1040).
StreamDone ==
    /\ st_pc = "streaming"
    /\ GeneratorResumed
    /\ st_pc' = "saving"
    /\ st_lines' = Append(st_lines, DoneLine(st_sources))
    /\ StreamFrame
    /\ UNCHANGED <<st_question, st_history, st_attachment, st_query,
                   st_sources, st_prompt, st_calls, st_ocr_calls>>

\* After the done line, logger.save_request appends the exchange to the
\* log file (lines 1042-1049) and the generator ends.
StreamSaved ==
    /\ st_pc = "saving"
    /\ GeneratorResumed
    /\ st_pc' = "ended"
    /\ StreamFrame
    /\ UNCHANGED <<st_question, st_history, st_attachment, st_query,
                   st_sources, st_prompt, st_lines, st_calls, st_ocr_calls>>

\* logger.save_request raises (the log file cannot be written): the call
\* stands inside the try block, whose handler yields an error line
\* (lines 1042-1054).
StreamSaveFails ==
    /\ st_pc = "saving"
    /\ GeneratorResumed
    /\ st_pc' = "ended"
    /\ st_lines' = Append(st_lines,
            ErrorLine(<<"Erreur Claude: ", "[Errno 28] No space left on device">>))
    /\ StreamFrame
    /\ UNCHANGED <<st_question, st_history, st_attachment, st_query,
                   st_sources, st_prompt, st_calls, st_ocr_calls>>

\* The model stream breaks while it is read (lines 1030-1032, 1051-1054).
StreamBreaks ==
    /\ st_pc = "streaming"
    /\ GeneratorResumed
    /\ st_pc' = "ended"
    /\ st_lines' = Append(st_lines, ErrorLine(<<"Erreur Claude: ", "connection reset">>))
    /\ StreamFrame
    /\ UNCHANGED <<st_question, st_history, st_attachment, st_query,
                   st_sources, st_prompt, st_calls, st_ocr_calls>>

\* The consumer is through with the generator; the next request may come.
StreamNextRequest ==
    /\ st_pc \in {"ended", "raised"}
    /\ st_pc' = "idle"
    /\ st_question' = <<>>
    /\ st_history' = <<>>
    /\ st_attachment' = None
    /\ st_query' = <<>>
    /\ st_sources' = <<>>
    /\ st_prompt' = <<>>
    /\ st_lines' = <<>>
    /\ st_calls' = 0
    /\ st_ocr_calls' = 0
    /\ StreamFrame

StreamNext ==
    \/ StreamCall
    \/ StreamOpens
    \/ StreamOpenFails
    \/ StreamToken
    \/ StreamDone
    \/ StreamSaved
    \/ StreamSaveFails
    \/ StreamBreaks
    \/ StreamNextRequest

\* ---------------------------------------------------------------------
\* Credits: storage and endpoints (server.py)
\* ---------------------------------------------------------------------

DEFAULT_CREDITS == 100

\* The most requests to the credits endpoints in a run.
MaxRequests == 3

\* The last day of a run; days are numbered from 0.
MaxDay == 1

Users == {"guest", "user-123"}

\* The sessions Clerk knows: session id -> user id.
ClerkSessions == [t \in {"validtoken"} |-> "user-123"]

\* The session headers of a request: none, X-Session-Id with a session
\* Clerk knows, the same as Authorization: Bearer, and an unknown session.
SessionHeaders ==
    {None, Some(<<"validtoken">>), Some(<<"Bearer ", "validtoken">>),
     Some(<<"stale">>)}

\* {'remaining': DEFAULT_CREDITS, 'lastReset': today}
DefaultRecord(day) == [remaining |-> DEFAULT_CREDITS, lastReset |-> day]

\* The stores a run can start from: per user no record, or one of day 0
\* with 0, 1 or all credits left.
InitialStores ==
    UNION {[us -> {[remaining |-> r, lastReset |-> 0] : r \in {0, 1, DEFAULT_CREDITS}}]
           : us \in SUBSET Users}

\* get_credits_record(user_id) on the loaded records (lines 806-814).
get_credits_record(records, user_id, day) ==
    IF user_id \notin DOMAIN records \/ records[user_id].lastReset < day
    THEN [rec |-> DefaultRecord(day),
          records |-> DictSet(records, user_id, DefaultRecord(day))]
    ELSE [rec |-> records[user_id], records |-> records]

\* A variant of spend_credit_record without the test of remaining.
spend_credit_record_unchecked(records, user_id, day) ==
    LET rec == IF user_id \in DOMAIN records THEN records[user_id]
               ELSE DefaultRecord(day)
    IN  [rec |-> Some([rec EXCEPT !.remaining = @ - 1]),
         records |-> DictSet(records, user_id, [rec EXCEPT !.remaining = @ - 1])]

\* A variant of spend_credit_record that takes the credit of every user.
spend_credit_record_from_all(records, user_id, day) ==
    LET rec == IF user_id \in DOMAIN records THEN records[user_id]
               ELSE DefaultRecord(day)
    IN  IF rec.remaining <= 0 THEN [rec |-> None, records |-> records]
        ELSE [rec |-> Some([rec EXCEPT !.remaining = @ - 1]),
              records |-> [u \in DOMAIN records \cup {user_id} |->
                             IF u \in DOMAIN records
                             THEN [records[u] EXCEPT !.remaining = @ - 1]
                             ELSE [rec EXCEPT !.remaining = @ - 1]]]

\* spend_credit_record(user_id) on the loaded records (lines 817-825):
\* the record returned (None: no credit left) and the records saved.
spend_credit_record(records, user_id, day) ==
    LET rec == IF user_id \in DOMAIN records THEN records[user_id]
               ELSE DefaultRecord(day)
    IN  IF rec.remaining <= 0 THEN [rec |-> None, records |-> records]
        ELSE [rec |-> Some([rec EXCEPT !.remaining = @ - 1]),
              records |-> DictSet(records, user_id,
                                  [rec EXCEPT !.remaining = @ - 1])]

\* find_one_and_update({'user_id', 'remaining': {'$gt': 0}}, {'$inc': -1})
\* (lines 932-939).
MongoSpend(records, user_id) ==
    IF user_id \in DOMAIN records /\ records[user_id].remaining > 0
    THEN [rec |-> Some([records[user_id] EXCEPT !.remaining = @ - 1]),
          records |-> DictSet(records, user_id,
                              [records[user_id] EXCEPT !.remaining = @ - 1])]
    ELSE [rec |-> None, records |-> records]

\* _spend_credit_record_async(user_id) (lines 931-942)
_spend_credit_record_async(records, user_id, day, mongo) ==
    IF mongo THEN MongoSpend(records, user_id)
    ELSE spend_credit_record(records, user_id, day)

\* _get_credits_record_async(user_id) (lines 914-928)
_get_credits_record_async(records, user_id, day) ==
    get_credits_record(records, user_id, day)

\* reset_all_credits() / _reset_all_credits_async() (lines 828-834, 945-952)
reset_all_credits(records, day) ==
    [u \in DOMAIN records |-> DefaultRecord(day)]

\* The token of a session header: what follows "Bearer ", or the header.
SessionToken(session_header) ==
    IF Len(session_header) = 2 /\ session_header[1] \in {"Bearer ", "bearer "}
    THEN session_header[2] ELSE session_header[1]

\* _verify_clerk_session(session_id) (lines 863-886): the user id, or None.
_verify_clerk_session(session_id, dev, key) ==
    IF dev THEN Some(session_id)
    ELSE IF key = None THEN None
    ELSE IF session_id \in DOMAIN ClerkSessions
         THEN Some(ClerkSessions[session_id]) ELSE None

HttpError(status, detail) == [status |-> status, detail |-> detail]

Ok200(body) == [status |-> 200, body |-> body]

\* A variant of MissingSession that lets every request through.
MissingSessionAccepted(session_header, dev) == FALSE

\* The request has no session header and the bypass is off (lines
\* 1462-1468).
MissingSession(session_header, dev) == session_header = None /\ ~dev

\* api_spend_credit(user_id, request) (lines 1457-1495): the response and
\* the records stored afterwards.
SpendResponse(records, user_id, session_header, day, dev, key, mongo) ==
    LET unchanged(resp) == [response |-> resp, records |-> records]
        spend(user_id_verified) ==
            LET out == _spend_credit_record_async(records, user_id_verified, day, mongo)
            IN  IF out.rec = None
                THEN unchanged(HttpError(402, "No credits remaining"))
                ELSE [response |-> Ok200([user_id |-> user_id_verified,
                                          remaining |-> (CHOOSE r \in out.rec : TRUE).remaining]),
                      records |-> out.records]
    IN  IF MissingSession(session_header, dev)
        THEN unchanged(HttpError(401, "Missing session header (X-Session-Id)"))
        ELSE LET session_token ==
                     IF session_header = None THEN "dev"
                     ELSE SessionToken(CHOOSE h \in session_header : TRUE)
             IN  IF dev THEN spend(user_id)
                 ELSE IF key # None
                 THEN LET user_id_verified == _verify_clerk_session(session_token, dev, key)
                      IN  IF user_id_verified = None
                          THEN unchanged(HttpError(401, "Invalid Clerk session"))
                          ELSE IF user_id_verified # Some(user_id)
                          THEN unchanged(HttpError(403, "User ID does not match session"))
                          ELSE spend(user_id)
                 ELSE spend(user_id)

\* api_get_credits(user_id, request) (lines 1423-1454): any exception,
\* the 401 and 403 included, ends in the default answer.
GetResponse(records, user_id, session_header, day, dev, key) ==
    LET fallback == [response |-> Ok200([user_id |-> user_id,
                                         remaining |-> DEFAULT_CREDITS,
                                         lastReset |-> day]),
                     records |-> records]
        get(user_id_verified) ==
            LET out == _get_credits_record_async(records, user_id_verified, day)
            IN  [response |-> Ok200([user_id |-> user_id_verified,
                                    remaining |-> out.rec.remaining,
                                    lastReset |-> out.rec.lastReset]),
                 records |-> out.records]
    IN  IF session_header = None \/ dev THEN get(user_id)
        ELSE LET session_token == SessionToken(CHOOSE h \in session_header : TRUE)
                 user_id_verified == _verify_clerk_session(session_token, dev, key)
             IN  IF user_id_verified # Some(user_id) THEN fallback
                 ELSE get(user_id)

\* api_reset_credits(user_id) (lines 1498-1513)
ResetResponse(records, user_id, day, admin_key) ==
    IF admin_key = None
    THEN [response |-> HttpError(403, "Reset not allowed"), records |-> records]
    ELSE [response |-> Ok200([user_id |-> user_id, remaining |-> DEFAULT_CREDITS]),
          records |-> DictSet(records, user_id, DefaultRecord(day))]

NoRequest == [op |-> "none"]

NoHttpResponse == [status |-> 0]

\* The credits endpoints have not been called.
CreditsIdle ==
    /\ cr_request = NoRequest
    /\ cr_before = credits
    /\ cr_after = credits
    /\ cr_response = NoHttpResponse
    /\ cr_requests = 0

\* Server start: the configuration is read from the environment.
CreditsInit ==
    /\ credits \in InitialStores
    /\ today = 0
    /\ DEV_SKIP_CLERK_VERIFY \in BOOLEAN
    /\ CLERK_API_KEY \in {None, Some("sk_test")}
    /\ USE_MONGO \in BOOLEAN
    /\ ADMIN_RESET_KEY \in {None, Some("admin")}
    /\ CreditsIdle

\* The credits endpoints as the other components see them: never called.
CreditsQuiet ==
    /\ credits = EmptyDict
    /\ today = 0
    /\ DEV_SKIP_CLERK_VERIFY = FALSE
    /\ CLERK_API_KEY = None
    /\ USE_MONGO = FALSE
    /\ ADMIN_RESET_KEY = None
    /\ CreditsIdle

\* The request is answered with out.response and out.records is stored.
Answered(request, out) ==
    /\ cr_requests < MaxRequests
    /\ cr_requests' = cr_requests + 1
    /\ cr_request' = request
    /\ cr_before' = credits
    /\ cr_after' = out.records
    /\ cr_response' = out.response
    /\ credits' = out.records
    /\ UNCHANGED today

\* GET /api/credits/{user_id}
api_get_credits ==
    /\ \E user_id \in Users, session_header \in SessionHeaders :
          Answered([op |-> "get", user_id |-> user_id, session_header |-> session_header],
                   GetResponse(credits, user_id, session_header, today,
                               DEV_SKIP_CLERK_VERIFY, CLERK_API_KEY))
    /\ CreditsFrame

\* POST /api/credits/{user_id}/spend
api_spend_credit ==
    /\ \E user_id \in Users, session_header \in SessionHeaders :
          Answered([op |-> "spend", user_id |-> user_id, session_header |-> session_header],
                   SpendResponse(credits, user_id, session_header, today,
                                 DEV_SKIP_CLERK_VERIFY, CLERK_API_KEY, USE_MONGO))
    /\ CreditsFrame

\* POST /api/credits/{user_id}/reset
api_reset_credits ==
    /\ \E user_id \in Users :
          Answered([op |-> "reset", user_id |-> user_id, session_header |-> None],
                   ResetResponse(credits, user_id, today, ADMIN_RESET_KEY))
    /\ CreditsFrame

\* Midnight passes: _midnight_reset_loop resets every record (lines
\* 1633-1645).
_midnight_reset_loop ==
    /\ today < MaxDay
    /\ today' = today + 1
    /\ credits' = reset_all_credits(credits, today + 1)
    /\ UNCHANGED <<cr_request, cr_before, cr_after, cr_response, cr_requests>>
    /\ CreditsFrame

CreditsNext ==
    \/ api_get_credits
    \/ api_spend_credit
    \/ api_reset_credits
    \/ _midnight_reset_loop

\* ---------------------------------------------------------------------
\* /api/ask-stream: ask_stream_endpoint.generate (server.py)
\* ---------------------------------------------------------------------

\* A line of white space only: line.strip() is empty.
BlankLine == [kind |-> "blank", isdict |-> FALSE, obj |-> EmptyDict]

\* A line json.loads rejects with JSONDecodeError.
GarbageLine == [kind |-> "garbage", isdict |-> FALSE, obj |-> EmptyDict]

\* A line json.loads accepts but that is no JSON object, such as 42.
NumberLine == [kind |-> "json", isdict |-> FALSE, obj |-> EmptyDict]

\* f"data: {json.dumps(obj)}\n\n"
SseData(obj) == [data |-> obj]

\* ": connected\n\n"
SseConnected == [comment |-> "connected"]

\* chunk_count, final_conclusion and stream_sources at the start of generate.
GenLocals0 ==
    [chunk_count |-> 0, final_conclusion |-> "", stream_sources |-> <<>>]

Handled(events, loc) == [events |-> events, loc |-> loc, raises |-> FALSE]

\* A variant of HandleLine that lets JSONDecodeError out of the loop.
HandleLineStrict(line, loc) ==
    [events |-> <<>>, loc |-> loc, raises |-> line.kind # "blank"]

\* One turn of the loop over the orchestrator's lines (lines 434-488): the
\* events yielded, the locals afterwards, and whether the turn raised
\* something else than JSONDecodeError.
HandleLine(line, loc) ==
    IF line.kind = "blank" THEN Handled(<<>>, loc)
    ELSE IF line.kind = "garbage" THEN Handled(<<>>, loc)
    ELSE IF ~line.isdict THEN [events |-> <<>>, loc |-> loc, raises |-> TRUE]
    ELSE
    LET chunk_obj == line.obj
        chunk_type == Get(chunk_obj, "type", "")
        sources == Get(chunk_obj, "sources", loc.stream_sources)
    IN  IF "token" \in DOMAIN chunk_obj
        THEN IF chunk_obj.token # ""
             THEN Handled(<<SseData([token |-> chunk_obj.token])>>,
                          [loc EXCEPT !.chunk_count = @ + 1])
             ELSE Handled(<<>>, loc)
        ELSE IF "metadata" \in DOMAIN chunk_obj
        THEN Handled(<<SseData([metadata |-> chunk_obj.metadata])>>,
                     [loc EXCEPT !.stream_sources =
                          Get(chunk_obj.metadata, "sources", @)])
        ELSE IF "done" \in DOMAIN chunk_obj
        THEN LET conclusion == Get(chunk_obj, "conclusion", "")
                 final == IF conclusion # "" THEN conclusion
                          ELSE loc.final_conclusion
             IN  Handled(<<SseData([done |-> TRUE, conclusion |-> final,
                                    sources |-> sources])>>,
                         [loc EXCEPT !.final_conclusion = final,
                                     !.stream_sources = sources])
        ELSE IF chunk_type = "chunk"
        THEN IF Get(chunk_obj, "text", "") # ""
             THEN Handled(<<SseData([token |-> chunk_obj.text])>>,
                          [loc EXCEPT !.chunk_count = @ + 1])
             ELSE Handled(<<>>, loc)
        ELSE IF chunk_type = "start"
        THEN Handled(<<SseData([metadata |-> chunk_obj])>>,
                     [loc EXCEPT !.stream_sources = sources])
        ELSE IF chunk_type = "end"
        THEN Handled(<<SseData([conclusion |-> Get(chunk_obj, "conclusion", "")])>>,
                     [loc EXCEPT !.final_conclusion = Get(chunk_obj, "conclusion", "")])
        ELSE Handled(<<>>, loc)

\* The user the charge goes to (lines 492-506): None when there is no
\* session header or Clerk does not know the session.
UserToCharge(session_header, user_id_from_request, dev, key) ==
    IF session_header = None THEN None
    ELSE IF dev THEN Some(user_id_from_request)
    ELSE IF key # None
    THEN _verify_clerk_session(SessionToken(CHOOSE h \in session_header : TRUE),
                               dev, key)
    ELSE Some(user_id_from_request)

\* A variant of Charge that charges nobody.
ChargeNobody(records, session_header, user_id_from_request, day, dev, key, mongo) ==
    [events |-> <<>>, records |-> records, charges |-> 0]

\* The server-side charge after the loop (lines 490-534): the events
\* yielded, the records stored and the number of charges performed.
Charge(records, session_header, user_id_from_request, day, dev, key, mongo) ==
    LET user_id_verified ==
            UserToCharge(session_header, user_id_from_request, dev, key)
    IN  IF user_id_verified = None
        THEN [events |-> <<>>, records |-> records, charges |-> 0]
        ELSE LET out == _spend_credit_record_async(
                            records, CHOOSE u \in user_id_verified : TRUE,
                            day, mongo)
             IN  IF out.rec = None
                 THEN [events |-> <<SseData([error |-> <<"No credits remaining">>])>>,
                       records |-> records, charges |-> 0]
                 ELSE [events |-> <<SseData([charged |-> TRUE,
                                   remaining |-> (CHOOSE r \in out.rec : TRUE).remaining])>>,
                       records |-> out.records, charges |-> 1]

\* The record generate hands to _log_interaction (lines 552-567, 575-589).
Interaction(question, model_answer, correctness_flag, error_flags) ==
    [student_question |-> question, model_answer |-> model_answer,
     correctness_flag |-> correctness_flag, error_flags |-> error_flags,
     source |-> "ask-stream"]

\* No request to /api/ask-stream is being answered.
GenIdle ==
    /\ gen_pc = "idle"
    /\ gen_i = 0
    /\ gen_header = None
    /\ gen_user = "guest"
    /\ sse = <<>>
    /\ chunk_count = 0
    /\ final_conclusion = ""
    /\ stream_sources = <<>>
    /\ gen_charges = 0

\* Server start: nothing logged.
GenInit ==
    /\ GenIdle
    /\ interactions = <<>>

\* The questions /api/ask-stream lets through (line 412).
StreamQuestions == {q \in Questions : q # <<>>}

\* A request arrives, generate sends ": connected" and calls
\* ask_math_ai_stream(question_text, history="", attachment) (lines
\* 424-432).
GenStart ==
    /\ gen_pc = "idle"
    /\ st_pc = "idle"
    /\ \E question \in StreamQuestions, attachment \in Attachments,
          outcome \in OcrOutcomes, resp \in AskIndexResponses :
            StreamUpToFirstYield(question, <<>>, attachment, outcome, resp)
    /\ \E session_header \in SessionHeaders, user_id \in Users :
          /\ gen_header' = session_header
          /\ gen_user' = user_id
    /\ gen_pc' = "reading"
    /\ gen_i' = 0
    /\ sse' = <<SseConnected>>
    /\ chunk_count' = GenLocals0.chunk_count
    /\ final_conclusion' = GenLocals0.final_conclusion
    /\ stream_sources' = GenLocals0.stream_sources
    /\ gen_charges' = 0
    /\ UNCHANGED <<credits, interactions>>
    /\ GenFrame

GenLocals ==
    [chunk_count |-> chunk_count, final_conclusion |-> final_conclusion,
     stream_sources |-> stream_sources]

\* generate takes the next line of the orchestrator and handles it.
GenLine ==
    /\ gen_pc = "reading"
    /\ gen_i < Len(st_lines)
    /\ LET out == HandleLine(st_lines[gen_i + 1], GenLocals) IN
          /\ ~out.raises
          /\ sse' = sse \o out.events
          /\ chunk_count' = out.loc.chunk_count
          /\ final_conclusion' = out.loc.final_conclusion
          /\ stream_sources' = out.loc.stream_sources
    /\ gen_i' = gen_i + 1
    /\ UNCHANGED <<gen_pc, gen_header, gen_user, gen_charges, interactions,
                   credits, streamVars>>
    /\ GenFrame

\* The most lines of a stand-in generator.
MaxLines == 3

\* The lines a generator standing in for ask_math_ai_stream can yield:
\* the lines of both orchestrator formats, white space, text that is no
\* JSON, and JSON that is no object.
LineAlphabet ==
    {BlankLine, GarbageLine, NumberLine,
     TokenLine("La derivee de x^2"), TokenLine(""),
     MetadataLine(<<"derivee de x^2">>, <<>>), DoneLine(<<>>),
     ErrorLine(<<"Erreur Claude: ", "overloaded_error">>),
     NdjsonLine([type |-> "chunk", text |-> " est 2x"]),
     NdjsonLine([type |-> "start", sources |-> <<>>]),
     NdjsonLine([type |-> "end", conclusion |-> "fin"])}

LineSeqs == UNION {[1..n -> LineAlphabet] : n \in 0..MaxLines}

\* generate is run over the lines of a stand-in generator (as a test that
\* patches ask_math_ai_stream does): the lines are there to be read.
GenOverLines ==
    /\ gen_pc = "idle"
    /\ st_pc = "idle"
    /\ \E lines \in LineSeqs :
          /\ st_lines' = lines
          /\ st_pc' = "ended"
    /\ \E session_header \in SessionHeaders, user_id \in Users :
          /\ gen_header' = session_header
          /\ gen_user' = user_id
    /\ gen_pc' = "reading"
    /\ gen_i' = 0
    /\ sse' = <<SseConnected>>
    /\ chunk_count' = GenLocals0.chunk_count
    /\ final_conclusion' = GenLocals0.final_conclusion
    /\ stream_sources' = GenLocals0.stream_sources
    /\ gen_charges' = 0
    /\ UNCHANGED <<credits, interactions, st_question, st_history, st_attachment,
                   st_query, st_sources, st_prompt, st_calls, st_ocr_calls>>
    /\ GenFrame

\* A variant of GenFinish that ends the response without the charge.
GenFinishDropsCharge ==
    /\ gen_pc = "reading"
    /\ st_pc = "ended"
    /\ gen_i = Len(st_lines)
    /\ sse' = sse \o <<SseData([done |-> TRUE])>>
    /\ interactions' = Append(interactions,
                              Interaction(st_question, final_conclusion, None, <<>>))
    /\ gen_pc' = "finished"
    /\ UNCHANGED <<gen_i, gen_header, gen_user, chunk_count, final_conclusion,
                   stream_sources, streamVars, credits, gen_charges>>
    /\ GenFrame

\* The orchestrator's generator is exhausted: the charge, the final done
\* event and the interaction log (lines 490-567).
GenFinish ==
    /\ gen_pc = "reading"
    /\ st_pc = "ended"
    /\ gen_i = Len(st_lines)
    /\ LET out == Charge(credits, gen_header, gen_user, today,
                         DEV_SKIP_CLERK_VERIFY, CLERK_API_KEY, USE_MONGO) IN
          /\ sse' = sse \o out.events \o <<SseData([done |-> TRUE])>>
          /\ credits' = out.records
          /\ gen_charges' = gen_charges + out.charges
    /\ interactions' = Append(interactions,
                              Interaction(st_question, final_conclusion, None, <<>>))
    /\ gen_pc' = "finished"
    /\ UNCHANGED <<gen_i, gen_header, gen_user, chunk_count, final_conclusion,
                   stream_sources, streamVars>>
    /\ GenFrame

\* Something raised inside generate: the orchestrator's generator (out of
\* search_curriculum) or the handling of a line (lines 569-590).
GenFails ==
    /\ gen_pc = "reading"
    /\ \/ st_pc = "raised"
       \/ /\ gen_i < Len(st_lines)
          /\ HandleLine(st_lines[gen_i + 1], GenLocals).raises
    /\ sse' = Append(sse, SseData([error |-> <<"str(e)">>]))
    /\ interactions' = Append(interactions,
                              Interaction(st_question, final_conclusion,
                                          Some(FALSE), <<"runtime_error">>))
    /\ gen_pc' = "failed"
    /\ UNCHANGED <<gen_i, gen_header, gen_user, chunk_count, final_conclusion,
                   stream_sources, gen_charges, streamVars, credits>>
    /\ GenFrame

\* One request to /api/ask-stream: generate and the generator of
\* ask_math_ai_stream it reads from.
GenNext ==
    \/ GenStart
    \/ StreamOpens
    \/ StreamOpenFails
    \/ StreamToken
    \/ StreamDone
    \/ StreamSaved
    \/ StreamSaveFails
    \/ StreamBreaks
    \/ GenLine
    \/ GenFinish
    \/ GenFails

\* ---------------------------------------------------------------------
\* The file store under concurrent requests (server.py)
\* ---------------------------------------------------------------------
\* In file mode _spend_credit_record_async hands spend_credit_record to
\* loop.run_in_executor(None, ...): spends of requests that overlap run in
\* threads of the default executor.  _load_json reads credits.json without
\* a lock; _save_json holds _storage_lock while it truncates and rewrites
\* the file.

\* The most calls of spend_credit_record running at the same time.
MaxSpenders == 2

Spenders == 1..MaxSpenders

\* _load_json(CREDITS_FILE, {}) (lines 670-677): the content of the file;
\* while a writer is between open(path, "w") and the end of json.dump the
\* file is empty or cut short, json.load raises and the default is
\* returned.
_load_json(file, lock) == IF lock = 0 THEN file ELSE EmptyDict

\* No spend has been handed to the executor.
RaceIdle ==
    /\ race_pc = [t \in Spenders |-> "idle"]
    /\ race_user = [t \in Spenders |-> "guest"]
    /\ race_records = [t \in Spenders |-> EmptyDict]
    /\ race_result = [t \in Spenders |-> None]
    /\ race_lock = 0
    /\ race_reset = None

\* What a step on the file store leaves alone.
RaceFrame ==
    UNCHANGED <<searchVars, scanVars, ingestVars, askVars, streamVars, genVars,
                configVars, today, cr_request, cr_before, cr_after, cr_response,
                cr_requests, poolVars, endpointVars, dbVars>>

\* What spend_credit_record computes from the records the thread loaded.
SpendOf(t) == spend_credit_record(race_records[t], race_user[t], today)

\* A thread of the executor starts spend_credit_record(user_id) and loads
\* the records (line 818).
RaceLoad ==
    /\ \E t \in Spenders, user_id \in Users :
         /\ race_pc[t] = "idle"
         /\ race_pc' = [race_pc EXCEPT ![t] = "loaded"]
         /\ race_user' = [race_user EXCEPT ![t] = user_id]
         /\ race_records' = [race_records EXCEPT ![t] = _load_json(credits, race_lock)]
    /\ RaceFrame
    /\ UNCHANGED <<credits, race_result, race_lock, race_reset>>

\* remaining <= 0: the thread returns None (lines 819-821).
RaceRefused ==
    /\ \E t \in Spenders :
         /\ race_pc[t] = "loaded"
         /\ SpendOf(t).rec = None
         /\ race_pc' = [race_pc EXCEPT ![t] = "done"]
         /\ race_result' = [race_result EXCEPT ![t] = None]
    /\ RaceFrame
    /\ UNCHANGED <<credits, race_user, race_records, race_lock, race_reset>>

\* The thread takes _storage_lock and opens the file for writing (lines
\* 822-824, 681-682).
RaceSaveBegins ==
    /\ race_lock = 0
    /\ \E t \in Spenders :
         /\ race_pc[t] = "loaded"
         /\ SpendOf(t).rec # None
         /\ race_pc' = [race_pc EXCEPT ![t] = "saving"]
         /\ race_lock' = t
    /\ RaceFrame
    /\ UNCHANGED <<credits, race_user, race_records, race_result, race_reset>>

\* json.dump has written the records of the thread, the lock is released
\* and the thread returns rec (lines 683, 825).
RaceSaveEnds ==
    /\ \E t \in Spenders :
         /\ race_pc[t] = "saving"
         /\ race_lock = t
         /\ credits' = SpendOf(t).records
         /\ race_result' = [race_result EXCEPT ![t] = SpendOf(t).rec]
         /\ race_pc' = [race_pc EXCEPT ![t] = "done"]
    /\ race_lock' = 0
    /\ RaceFrame
    /\ UNCHANGED <<race_user, race_records, race_reset>>

\* POST /api/credits/{user_id}/reset with ADMIN_RESET_KEY set, handled on
\* the event loop while spends are in their threads (lines 1498-1513).
RaceReset ==
    /\ race_lock = 0
    /\ race_reset = None
    /\ \E user_id \in Users :
         /\ credits' = ResetResponse(credits, user_id, today, Some("admin")).records
         /\ race_reset' = Some(user_id)
    /\ RaceFrame
    /\ UNCHANGED <<race_pc, race_user, race_records, race_result, race_lock>>

RaceNext ==
    \/ RaceLoad
    \/ RaceRefused
    \/ RaceSaveBegins
    \/ RaceSaveEnds
    \/ RaceReset

\* ---------------------------------------------------------------------
\* initialize_database (init_db.py)
\* ---------------------------------------------------------------------
\* CHROMA_PATH is set in the environment, so that init_db and
\* ingest_curriculum name the same directory; chroma.sqlite3 is in it from
\* the moment PersistentClient has created it.

\* Calls of initialize_database in one behaviour.
MaxInitCalls == 2

\* initialize_database has not been called.
InitDbIdle ==
    /\ db_pc = "idle"
    /\ db_file = "ok"
    /\ db_result = "none"
    /\ db_ingested = FALSE
    /\ db_calls = 0

\* What a step of initialize_database leaves alone.
InitDbFrame ==
    UNCHANGED <<searchVars, scanVars, askVars, streamVars, creditVars, genVars,
                poolVars, endpointVars, raceVars>>

\* os.path.exists(db_marker): chroma.sqlite3 is in CHROMA_PATH (lines 32-33).
MarkerExists == index_exists

\* The marker is there: the call returns True at once (lines 31-35).
InitDbAlreadyInitialized ==
    /\ db_pc = "idle"
    /\ db_calls < MaxInitCalls
    /\ MarkerExists
    /\ db_calls' = db_calls + 1
    /\ db_result' = "True"
    /\ db_ingested' = FALSE
    /\ db_pc' = "returned"
    /\ InitDbFrame
    /\ UNCHANGED <<ingestVars, db_file>>

\* No marker, and the curriculum file is not found or holds nothing: the
\* call returns False (lines 58-100).
InitDbNoCurriculum ==
    /\ db_pc = "idle"
    /\ db_calls < MaxInitCalls
    /\ ~MarkerExists
    /\ \E file \in {"missing", "empty"} : db_file' = file
    /\ db_calls' = db_calls + 1
    /\ db_result' = "False"
    /\ db_ingested' = FALSE
    /\ db_pc' = "returned"
    /\ InitDbFrame
    /\ UNCHANGED ingestVars

\* No marker and a curriculum file with chunks: ingest_curriculum is
\* imported, which creates the index directory (nothing is there to
\* remove), and run_ingestion is called (lines 72-120).
InitDbIngests ==
    /\ db_pc = "idle"
    /\ db_calls < MaxInitCalls
    /\ ~MarkerExists
    /\ data # <<>>
    /\ proc = "none"
    /\ db_file' = "ok"
    /\ db_calls' = db_calls + 1
    /\ db_ingested' = TRUE
    /\ db_pc' = "ingesting"
    /\ proc' = "loaded"
    /\ index' = <<>>
    /\ index_exists' = TRUE
    /\ ing_runs' = ing_runs + 1
    /\ ing_pc' = "running"
    /\ ing_i' = 0
    /\ ing_index0' = <<>>
    /\ ing_ok' = {}
    /\ ing_failed' = {}
    /\ InitDbFrame
    /\ UNCHANGED <<data, ever_failed, next_uuid, db_result>>

\* run_ingestion has returned: the call returns True (lines 120-122).
InitDbReturns ==
    /\ db_pc = "ingesting"
    /\ ing_pc = "done"
    /\ db_result' = "True"
    /\ db_pc' = "returned"
    /\ InitDbFrame
    /\ UNCHANGED <<ingestVars, db_file, db_ingested, db_calls>>

\* The server process ends and a new one starts (the index directory is
\* on the persistent disk), or the same process calls again.
InitDbNextCall ==
    /\ db_pc = "returned"
    /\ db_pc' = "idle"
    /\ \E p \in {proc, "none"} : proc' = p
    /\ ing_pc' = "idle"
    /\ InitDbFrame
    /\ UNCHANGED <<data, index_exists, index, ing_i, ing_index0, ing_ok,
                   ing_failed, ing_runs, ever_failed, next_uuid, db_file,
                   db_result, db_ingested, db_calls>>

InitDbNext ==
    \/ InitDbAlreadyInitialized
    \/ InitDbNoCurriculum
    \/ InitDbIngests
    \/ IngestBatch
    \/ IngestBatchFails
    \/ IngestReturn
    \/ InitDbReturns
    \/ InitDbNextCall

\* ---------------------------------------------------------------------
\* /api/ask: ask_endpoint (server.py)
\* ---------------------------------------------------------------------
\* A value of the request is None ({}), or a text ({text}); "" is <<>>.

\* Python truth of an optional text: not None and not "".
Truthy(value) == value # None /\ value # Some(<<>>)

\* a or b
Or(a, b) == IF Truthy(a) THEN a ELSE b

\* payload.get(key)
PayloadGet(payload, key) == IF key \in DOMAIN payload THEN payload[key] ELSE None

\* What request.json() gives: it raises (no JSON body), or the parsed value.
JsonBodies ==
    { [kind |-> "invalid", obj |-> EmptyDict],
      [kind |-> "list", obj |-> EmptyDict],
      [kind |-> "dict", obj |-> EmptyDict],
      [kind |-> "dict", obj |-> [k \in {"text"} |-> None]],
      [kind |-> "dict", obj |-> [k \in {"text"} |-> Some(<<>>)]],
      [kind |-> "dict", obj |-> [k \in {"text"} |-> Some(<<" ">>)]],
      [kind |-> "dict", obj |-> [k \in {"text"} |-> Some(<<"derivee de x^2">>)]],
      [kind |-> "dict", obj |-> [k \in {"question"} |-> Some(<<"derivee de x^2">>)]],
      [kind |-> "dict", obj |-> [k \in {"text", "content"} |->
                                   IF k = "text" THEN Some(<<>>)
                                   ELSE Some(<<"\n">>)]] }

\* The form field text: absent, or a text.
FormTexts == {None, Some(<<>>), Some(<<" ">>), Some(<<"derivee de x^2">>)}

\* The requests of the model: a form with or without text, or a JSON body.
EndpointRequests ==
    {[text |-> t, body |-> b] : t \in FormTexts \ {None},
                                b \in {[kind |-> "invalid", obj |-> EmptyDict]}}
    \cup {[text |-> None, body |-> b] : b \in JsonBodies}

\* Lines 250-258: text as the handler has it before the test of line 260.
ResolvedText(request) ==
    IF request.text # None THEN request.text
    ELSE LET payload == IF request.body.kind = "invalid" THEN EmptyDict
                        ELSE request.body.obj
         IN  IF request.body.kind = "list" THEN None
             ELSE Or(PayloadGet(payload, "text"),
                     Or(PayloadGet(payload, "question"),
                        PayloadGet(payload, "content")))

\* not text or not str(text).strip()
TextMissing(text) == ~Truthy(text) \/ \A t \in text : IsBlank(t)

HttpResponse(status, detail) == [status |-> status, detail |-> detail]

\* raise HTTPException(status_code=400, ...) at line 261 is inside the try
\* block of line 249, and HTTPException is an Exception: the handler of
\* line 351 takes it.  Its print of text[:100] raises TypeError when text
\* is None, which leaves the handler (the server answers 500); otherwise
\* line 363 raises HTTPException(500) with str(e) as detail.
MissingTextResponse(text) ==
    IF text = None
    THEN HttpResponse(500, <<"Internal Server Error">>)
    ELSE HttpResponse(500, <<"400: ", "Missing 'text' field in request.">>)

NoEndpointResponse == HttpResponse(0, <<>>)

NoEndpointRequest == [text |-> None, body |-> [kind |-> "none", obj |-> EmptyDict]]

\* No request to /api/ask is being answered.
EndpointIdle ==
    /\ ep_pc = "idle"
    /\ ep_request = NoEndpointRequest
    /\ ep_text = None
    /\ ep_response = NoEndpointResponse
    /\ ep_orch_calls = 0

\* What a step of ask_endpoint leaves alone.
EndpointFrame ==
    UNCHANGED <<searchVars, scanVars, ingestVars, streamVars, creditVars,
                gen_pc, gen_i, gen_header, gen_user, sse, chunk_count,
                final_conclusion, stream_sources, gen_charges, poolVars,
                raceVars, dbVars>>

\* POST /api/ask with a missing or blank text: lines 249-261, 351-366.
EndpointRejects ==
    /\ ep_pc = "idle" /\ ask_pc = "idle" /\ st_pc = "idle"
    /\ \E request \in EndpointRequests :
         /\ TextMissing(ResolvedText(request))
         /\ ep_request' = request
         /\ ep_text' = ResolvedText(request)
         /\ ep_response' = MissingTextResponse(ResolvedText(request))
    /\ ep_pc' = "answered"
    /\ ep_orch_calls' = 0
    /\ EndpointFrame
    /\ UNCHANGED <<askVars, interactions>>

\* POST /api/ask with a text: lines 249-279, up to the model call inside
\* ask_math_ai(text, attachment=attachment).
EndpointCallsOrchestrator ==
    /\ ep_pc = "idle" /\ ask_pc = "idle" /\ st_pc = "idle"
    /\ \E request \in EndpointRequests :
         /\ ~TextMissing(ResolvedText(request))
         /\ ep_request' = request
         /\ ep_text' = ResolvedText(request)
         /\ \E attachment \in Attachments, outcome \in OcrOutcomes,
               resp \in AskIndexResponses :
                AskUpToModelCall(CHOOSE t \in ResolvedText(request) : TRUE,
                                 <<>>, attachment, outcome, resp)
    /\ ep_pc' = "orchestrator"
    /\ ep_orch_calls' = 1
    /\ EndpointFrame
    /\ UNCHANGED <<claude_client, ep_response, interactions>>

\* model_answer of the logged interaction (line 331).
EndpointModelAnswer(result) ==
    IF result.conclusion # None THEN <<CHOOSE c \in result.conclusion : TRUE>>
    ELSE IF result.steps # <<>> THEN result.steps[1].explanation
    ELSE <<>>

\* ask_math_ai has returned its dict: lines 280-349.
EndpointAnswers ==
    /\ ep_pc = "orchestrator" /\ ask_pc = "returned"
    /\ ep_response' = HttpResponse(200, ask_response.problemStatement)
    /\ interactions' = Append(interactions,
            [student_question |-> ask_question,
             model_answer |-> EndpointModelAnswer(ask_response),
             correctness_flag |-> None, error_flags |-> <<>>,
             source |-> "ask"])
    /\ ep_pc' = "answered"
    /\ EndpointFrame
    /\ UNCHANGED <<askVars, ep_request, ep_text, ep_orch_calls>>

\* ask_math_ai has raised: lines 351-366.
EndpointFails ==
    /\ ep_pc = "orchestrator" /\ ask_pc = "raised"
    /\ ep_response' = HttpResponse(500, <<"str(e)">>)
    /\ ep_pc' = "answered"
    /\ EndpointFrame
    /\ UNCHANGED <<askVars, ep_request, ep_text, ep_orch_calls, interactions>>

EndpointNext ==
    \/ EndpointRejects
    \/ EndpointCallsOrchestrator
    \/ AskModelAnswers
    \/ AskModelFails
    \/ EndpointAnswers
    \/ EndpointFails

\* ---------------------------------------------------------------------
\* Claims about search_curriculum
\* ---------------------------------------------------------------------

\* The result of rank i was reported with a distance above the threshold.
ReportedTooFar(resp, i) ==
    /\ resp.hasDistances
    /\ i <= Len(resp.distances)
    /\ \E d \in resp.distances[i] : d > DistanceThreshold

InSources(doc) == \E n \in 1..Len(sc_result.sources) : sc_result.sources[n].text = doc

InContext(doc) ==
    \E n \in 1..Len(sc_result.context_text) : sc_result.context_text[n] = doc

\* C1: whenever search_curriculum returns, a result of the index is in
\* sources and in context_text exactly when its reported distance is not
\* above 1.5 (a result at 1.5, or with no distance reported, is kept; one
\* above 1.5 is dropped from both).
C1_ThresholdFilter ==
    (sc_pc = "returned" /\ sc_response.kind = "ok") =>
        \A i \in 1..Len(sc_response.documents) :
            /\ InSources(sc_response.documents[i]) <=> ~ReportedTooFar(sc_response, i)
            /\ InContext(sc_response.documents[i]) <=> ~ReportedTooFar(sc_response, i)

\* A returned call that dropped one result, kept one at the threshold and
\* kept one without a reported distance.
C1_Witness ==
    /\ sc_pc = "returned"
    /\ sc_response.kind = "ok"
    /\ Len(sc_response.documents) = 3
    /\ sc_response.hasDistances
    /\ sc_response.distances = <<Some(15), Some(16), None>>
    /\ Len(sc_result.sources) = 2

\* C2: with the handle None, with a query that raises, or with an answer
\* holding no documents, search_curriculum returns ("", []) and does not
\* raise.
C2_EmptyOnUnavailable ==
    (/\ sc_pc \in {"returned", "raised"}
     /\ \/ collection = None
        \/ sc_response.kind = "raise"
        \/ (sc_response.kind = "ok" /\ sc_response.documents = <<>>))
    => (/\ sc_pc = "returned"
        /\ sc_result.context_text = <<>>
        /\ sc_result.sources = <<>>)

\* A call on an available handle whose query raised.
C2_Witness ==
    /\ sc_pc = "returned"
    /\ collection # None
    /\ sc_response.kind = "raise"

\* The ranks of the results of resp, from rank i on, that were not reported
\* with a distance above the threshold, in the order of the index.
RECURSIVE SurvivingRanks(_, _)
SurvivingRanks(resp, i) ==
    IF i > Len(resp.documents) THEN <<>>
    ELSE IF ReportedTooFar(resp, i) THEN SurvivingRanks(resp, i + 1)
    ELSE <<i>> \o SurvivingRanks(resp, i + 1)

\* The blocks of text that the entries of srcs, from entry n on, stand for.
RECURSIVE BlocksOf(_, _)
BlocksOf(srcs, n) ==
    IF n > Len(srcs) THEN <<>>
    ELSE <<"\n--- ", srcs[n].source, " (p.", srcs[n].page, ") ---\n",
           srcs[n].text, "\n">> \o BlocksOf(srcs, n + 1)

\* C22: whenever search_curriculum returns, sources has exactly one
\* {text, source, page} entry per block of context_text, in the same order,
\* which is the order in which the index returned the surviving results;
\* sources has at most 4 entries; and context_text is empty exactly when
\* sources is empty.
C22_SourcesMatchContext ==
    (sc_pc = "returned") =>
        /\ sc_result.context_text = BlocksOf(sc_result.sources, 1)
        /\ Len(sc_result.sources) <= 4
        /\ (sc_result.context_text = <<>>) <=> (sc_result.sources = <<>>)
        /\ \A n \in 1..Len(sc_result.sources) :
              DOMAIN sc_result.sources[n] = {"text", "source", "page"}
        /\ (sc_response.kind = "ok") =>
              LET kept == SurvivingRanks(sc_response, 1) IN
              /\ Len(sc_result.sources) = Len(kept)
              /\ \A n \in 1..Len(kept) :
                    sc_result.sources[n].text = sc_response.documents[kept[n]]

\* A returned call in which the index answered four results and the second
\* was dropped: three entries, of ranks 1, 3 and 4.
C22_Witness ==
    /\ sc_pc = "returned"
    /\ sc_response.kind = "ok"
    /\ Len(sc_response.documents) = 4
    /\ sc_response.hasDistances
    /\ sc_response.distances = <<Some(15), Some(16), None, Some(15)>>
    /\ Len(sc_result.sources) = 3

\* C3 (as claimed): no call of search_curriculum ends with an exception in
\* its caller, whatever the index answered.
C3_NeverRaises == sc_pc # "raised"

\* ---------------------------------------------------------------------
\* Claims about extract_scanned_pdf
\* ---------------------------------------------------------------------

\* One run of extract_scanned_pdf from an absent progress file that nothing
\* interrupts: every split is extracted, then the documents are sorted.
RECURSIVE RunAll(_, _)
RunAll(splits, all) ==
    IF splits = <<>> THEN sorted_by_page(all)
    ELSE LET docs == ExtractDocs(GlobalImages(Head(splits))) IN
         RunAll(Tail(splits), all \o [i \in 1..Len(docs) |-> WithSource(docs[i])])

UninterruptedRun == RunAll(_split_pdf(num_pages), <<>>)

AllSplits == _split_pdf(num_pages)

SplitIndexes == 1..Len(AllSplits)

ResultOf(split) ==
    LET InSplit(doc) == doc.metadata.page \in PagesOf(split)
    IN  SelectSeq(ex_result, InSplit)

\* C5: in every run, for a split whose key was in progress.json when the
\* run started, no page is rasterized and no OCR call is made, and the
\* run returns for the pages of that split exactly the cached texts (also
\* when the cached entry holds fewer pages than the split).
C5_CachedSplitSkipped ==
    \A i \in SplitIndexes :
        LET split == AllSplits[i]
            key == SplitKey(split.start)
        IN  key \in loaded_keys =>
              /\ \A p \in PagesOf(split) :
                    raster_calls[p] = 0 /\ ocr_calls[p] = 0
              /\ ex_pc = "done" =>
                    /\ Len(ResultOf(split)) = Len(progress_file[key])
                    /\ \A j \in 1..Len(progress_file[key]) :
                          /\ Str(ResultOf(split)[j].metadata.page)
                               = progress_file[key][j][1]
                          /\ ResultOf(split)[j].page_content
                               = progress_file[key][j][2]

\* A run returned with the first split taken from a cached entry that
\* lacks page 0, although the OCR model would now read page 0.
C5_Witness ==
    /\ ex_pc = "done"
    /\ num_pages > SPLIT_SIZE
    /\ SplitKey(0) \in loaded_keys
    /\ Len(progress_file[SplitKey(0)]) = SPLIT_SIZE - 1
    /\ ocr[0] = "v1"
    /\ ocr_calls[SPLIT_SIZE] = 1

InAll(page) ==
    \E n \in 1..Len(ex_all) :
        /\ ex_all[n].metadata.page = page
        /\ ex_all[n].page_content = PageText(page, OcrAnswer(page))

\* The run has extracted this split itself and is past its checkpoint.
ExtractedInRun(split) ==
    /\ ex_pc \in {"running", "done"}
    /\ SplitKey(split.start) \notin loaded_keys
    /\ SplitKey(split.start) \in DOMAIN ex_progress

\* C7: for every split a run has extracted, each page got exactly one OCR
\* call, a page is missing from the documents exactly when its OCR call
\* failed or gave blank text, and the split is checkpointed; the run goes
\* on, so that a run that returns has gone through every split.
C7_FailedPageDropped ==
    /\ \A i \in SplitIndexes :
          ExtractedInRun(AllSplits[i]) =>
              /\ \A p \in PagesOf(AllSplits[i]) :
                    /\ ocr_calls[p] = 1
                    /\ InAll(p) <=> OcrAnswer(p) \notin {"fail", "blank"}
              /\ SplitKey(AllSplits[i].start) \in DOMAIN progress_file
    /\ ex_pc = "done" =>
          \A i \in SplitIndexes :
              SplitKey(AllSplits[i].start) \in DOMAIN progress_file
    /\ ex_pc = "failed" => ex_error = "rasterize"

\* A first run over three splits returned although the OCR call of page 0
\* failed and page 33 came back blank: 65 of 67 pages.
C7_Witness ==
    /\ ex_pc = "done"
    /\ loaded_keys = {}
    /\ Len(AllSplits) = 3
    /\ ocr[0] = "fail"
    /\ ocr[SPLIT_SIZE] = "blank"
    /\ Len(ex_result) = num_pages - 2

\* C24: every document of a returned list carries the global page number
\* (start page of its split plus local page) of the page its text was read
\* from, whether its split was extracted in this run or reloaded from the
\* checkpoint; no two documents share a page number; and the list is
\* sorted by page number, ascending.
C24_GlobalPagesSorted ==
    (ex_pc = "done") =>
        /\ \A n \in 1..Len(ex_result) :
              /\ ex_result[n].metadata.page \in 0..(num_pages - 1)
              /\ ex_result[n].page_content.of = ex_result[n].metadata.page
              /\ \E i \in SplitIndexes :
                    \E local \in 0..(AllSplits[i].n - 1) :
                        /\ ex_result[n].metadata.page = AllSplits[i].start + local
                        /\ local < SPLIT_SIZE
        /\ \A n \in 1..(Len(ex_result) - 1) :
              ex_result[n].metadata.page < ex_result[n + 1].metadata.page

\* A second run over three splits returned every page, the first split
\* reloaded from its checkpoint and the two others extracted in the run.
C24_Witness ==
    /\ ex_pc = "done"
    /\ ex_runs = 2
    /\ Len(AllSplits) = 3
    /\ loaded_keys = {SplitKey(0)}
    /\ Len(ex_result) = num_pages
    /\ ocr_calls[SPLIT_SIZE] = 1

\* The checkpoint of every group before the one the loop is at is in
\* progress.json.
EarlierGroupsCheckpointed ==
    \A i \in SplitIndexes :
        AllSplits[i].start < Head(ex_splits).start =>
            SplitKey(AllSplits[i].start) \in DOMAIN progress_file

\* C23: groups are processed one after another.  A step in which a
\* rasterization or OCR worker starts on a page of a group is taken only
\* when the checkpoint of every earlier group is in the progress file; a
\* step that writes the progress file is taken by the main thread between
\* two groups, with no pool open and no page worker running before or
\* after it; and one write adds the entry of one group (writes follow one
\* another, none starts inside another).
C23_GroupsSequential ==
    [][ /\ (pool_running' \ pool_running # {}) =>
              /\ ex_pc = "running"
              /\ ex_phase \in {"raster", "ocr"}
              /\ EarlierGroupsCheckpointed
        /\ (progress_file' # progress_file) =>
              /\ pool_running = {} /\ pool_running' = {}
              /\ pool_results = EmptyDict
              /\ ex_phase = "save" /\ ex_phase' = "loop"
              /\ DOMAIN progress_file' =
                    DOMAIN progress_file \cup {SplitKey(Head(ex_splits).start)}
              /\ SplitKey(Head(ex_splits).start) \notin DOMAIN progress_file
              /\ ex_splits' = Tail(ex_splits)
      ]_vars

\* In a first run with two workers, a worker is rasterizing the page of
\* the second group, the checkpoint of the first group being on disk.
C23_Witness ==
    /\ ex_pc = "running"
    /\ ex_phase = "raster"
    /\ max_workers = 2
    /\ loaded_keys = {}
    /\ Head(ex_splits).start = SPLIT_SIZE
    /\ pool_running # {}
    /\ DOMAIN progress_file = {SplitKey(0)}

\* The pages of a sequence of documents.
PageNumbers(docs) == [n \in 1..Len(docs) |-> docs[n].metadata.page]

\* C29: whatever the order in which at most max_workers concurrent
\* workers take and finish their pages, _extract_split returns the same
\* list, the one a page-by-page extraction of the group gives; no OCR call
\* of a group starts before every page of the group is rasterized; each
\* document carries the number of the page whose image was read; and the
\* list is in page order, a page missing exactly when its OCR call failed
\* or gave blank text.
C29_ScheduleIndependent ==
    /\ Cardinality(pool_running) <= max_workers
    /\ (ex_pc = "running" /\ ex_phase \in {"raster", "ocr"}) =>
          ((\E p \in PagesOf(Head(ex_splits)) : ocr_calls[p] > 0) =>
              /\ ex_phase = "ocr"
              /\ Len(pool_images) = Head(ex_splits).n
              /\ \A q \in PagesOf(Head(ex_splits)) : raster_calls[q] = 1)
    /\ (ex_pc = "running" /\ ex_phase = "save") =>
          /\ ex_docs = ExtractDocs(GlobalImages(Head(ex_splits)))
          /\ \A n \in 1..Len(ex_docs) :
                ex_docs[n].page_content.of = ex_docs[n].metadata.page
          /\ \A n \in 1..(Len(ex_docs) - 1) :
                ex_docs[n].metadata.page < ex_docs[n + 1].metadata.page
          /\ \A p \in PagesOf(Head(ex_splits)) :
                (\E n \in 1..Len(ex_docs) : ex_docs[n].metadata.page = p)
                    <=> OcrAnswer(p) \notin {"fail", "blank"}

\* _extract_split has returned for the first group of 33 pages, worked on
\* by two workers, the OCR call of its first page having failed.
C29_Witness ==
    /\ ex_pc = "running"
    /\ ex_phase = "save"
    /\ max_workers = 2
    /\ Head(ex_splits).start = 0
    /\ ocr[0] = "fail"
    /\ PageNumbers(ex_docs) = [n \in 1..(SPLIT_SIZE - 1) |-> n]

\* ---------------------------------------------------------------------
\* Claims about run_ingestion
\* ---------------------------------------------------------------------

\* The i of every turn of the loop: range(0, total_docs, batch_size).
AllBatches == {b \in 0..Len(data) : b % batch_size = 0 /\ b < Len(data)}

\* The batch (its i) the k-th chunk belongs to.
BatchOfChunk(k) == ((k - 1) \div batch_size) * batch_size

\* The records the current run has added to the collection.
NewRecords == SubSeq(index, Len(ing_index0) + 1, Len(index))

\* How many of the new records hold the k-th chunk.
NewRecordsOf(k) ==
    Cardinality({n \in 1..Len(NewRecords) :
                    /\ NewRecords[n].document = data[k].text
                    /\ NewRecords[n].metadata.original_id = data[k].id})

\* C8: during and after a run of run_ingestion, the records the collection
\* held before the run are still there, and the run has added exactly one
\* record for each chunk of a batch that succeeded and none for a chunk of
\* a batch that failed (nothing is rolled back by a later failure); a run
\* that returns has attempted every batch.
C8_FailedBatchSkipped ==
    ing_pc \in {"running", "done"} =>
        /\ Len(index) >= Len(ing_index0)
        /\ SubSeq(index, 1, Len(ing_index0)) = ing_index0
        /\ \A k \in 1..Len(data) :
              NewRecordsOf(k) = IF BatchOfChunk(k) \in ing_ok THEN 1 ELSE 0
        /\ Len(NewRecords) =
              Cardinality({k \in 1..Len(data) : BatchOfChunk(k) \in ing_ok})
        /\ ing_pc = "done" => ing_ok \cup ing_failed = AllBatches

\* A run over three batches returned with the first and the last batch
\* inserted and the middle one skipped.
C8_Witness ==
    /\ ing_pc = "done"
    /\ ing_ok = {0, 2 * batch_size}
    /\ ing_failed = {batch_size}
    /\ Len(index) = Len(data) - batch_size

\* The (document, metadata) content of the collection.
ContentOf(records) ==
    [n \in 1..Len(records) |->
        [document |-> records[n].document, metadata |-> records[n].metadata]]

\* The content of the collection after one run on a wiped index in which
\* every batch succeeded.
SingleRunContent ==
    [k \in 1..Len(data) |-> [document |-> data[k].text,
                             metadata |-> MetaOf(data[k])]]

\* C9 (as claimed): after any number of runs of run_ingestion against the
\* same file in which no batch failed, the collection holds what one run
\* leaves: the same number of records, the same content, no duplicates.
C9_IdempotentReingestion ==
    (ing_pc = "done" /\ ~ever_failed) => ContentOf(index) = SingleRunContent

\* The batches (their i) whose slice holds the k-th chunk.
BatchesHolding(k) ==
    {b \in AllBatches :
        \E n \in 1..Len(Batch(data, b)) : Batch(data, b)[n] = data[k]}

\* The records of the collection that hold the k-th chunk: its text as the
\* document, its id as original_id, its source and page.
RecordsOf(k) ==
    {n \in 1..Len(index) :
        /\ index[n].document = data[k].text
        /\ index[n].metadata = [source |-> data[k].source,
                                page |-> data[k].page,
                                original_id |-> data[k].id]}

\* C16: one embedding per chunk. No chunk of the file is in two batches and
\* none is left out; in no run does a chunk get more than one record; and
\* after a run on a freshly wiped index in which every batch succeeded,
\* each chunk has exactly one record in the index (document = chunk text,
\* original_id = chunk id, source and page copied) and the index holds
\* nothing else.
C16_OneEmbeddingPerChunk ==
    /\ \A k \in 1..Len(data) : BatchesHolding(k) = {BatchOfChunk(k)}
    /\ ing_pc \in {"running", "done"} =>
          \A k \in 1..Len(data) : NewRecordsOf(k) <= 1
    /\ (ing_pc = "done" /\ ing_index0 = <<>> /\ ing_failed = {}) =>
          /\ \A k \in 1..Len(data) : Cardinality(RecordsOf(k)) = 1
          /\ Len(index) = Len(data)

\* A run over three batches, the last one short, returned on a wiped index
\* with every batch inserted.
C16_Witness ==
    /\ ing_pc = "done"
    /\ ing_index0 = <<>>
    /\ ing_failed = {}
    /\ Len(data) = MaxChunks
    /\ Len(index) = MaxChunks

\* The index holds the records of the curriculum file: one per chunk, in
\* the order of the file.
IndexHoldsCurriculum ==
    /\ Len(index) = Len(data)
    /\ \A k \in 1..Len(data) :
          /\ index[k].document = data[k].text
          /\ index[k].metadata = MetaOf(data[k])

\* C30 (as claimed): initialize_database returns True only when the index
\* holds the curriculum records; once the index is populated, a later call
\* returns True without running the ingestion again; and it never reports
\* an index as initialized in which every batch has failed.
C30_InitializedMeansPopulated ==
    /\ (db_pc = "returned" /\ db_result = "True") =>
          /\ IndexHoldsCurriculum
          /\ index # <<>>
    /\ (db_pc = "returned" /\ db_calls > 1 /\ IndexHoldsCurriculum) =>
          /\ db_result = "True"
          /\ ~db_ingested

\* ---------------------------------------------------------------------
\* Claims about the credits endpoints
\* ---------------------------------------------------------------------

\* The last request was a spend for user_id.
SpendRequested == cr_request.op = "spend"

\* C17: a POST to /api/credits/{user_id}/spend without a session header,
\* and without the development bypass, is rejected with 401 and leaves the
\* stored credits of every user unchanged.
C17_SpendWithoutSessionRejected ==
    (SpendRequested /\ cr_request.session_header = None /\ ~DEV_SKIP_CLERK_VERIFY)
        => /\ cr_response.status = 401
           /\ cr_after = cr_before

\* A spend without session header was sent for a user who has credits.
C17_Witness ==
    /\ SpendRequested
    /\ cr_request.session_header = None
    /\ ~DEV_SKIP_CLERK_VERIFY
    /\ cr_request.user_id \in DOMAIN cr_before
    /\ cr_before[cr_request.user_id].remaining > 0
    /\ cr_response.status = 401

\* The last request carries a session that is valid for the user of its
\* path: Clerk maps the token of the header to that user (or the server
\* runs without Clerk and takes the header as it comes).
ValidSessionOfUser ==
    \E h \in cr_request.session_header :
        \/ DEV_SKIP_CLERK_VERIFY
        \/ CLERK_API_KEY = None
        \/ /\ SessionToken(h) \in DOMAIN ClerkSessions
           /\ ClerkSessions[SessionToken(h)] = cr_request.user_id

\* C18: a spend with a valid session for the same user and remaining > 0
\* reduces that user's remaining credits by exactly 1, returns the new
\* value, and changes no other user's record; a reset of a user, with
\* ADMIN_RESET_KEY set, puts remaining back to 100 whatever it was.
C18_SpendTakesOneResetRestores ==
    /\ (/\ SpendRequested
        /\ ValidSessionOfUser
        /\ cr_request.user_id \in DOMAIN cr_before
        /\ cr_before[cr_request.user_id].remaining > 0)
          => /\ cr_response.status = 200
             /\ cr_after[cr_request.user_id].remaining
                   = cr_before[cr_request.user_id].remaining - 1
             /\ cr_response.body.remaining
                   = cr_after[cr_request.user_id].remaining
             /\ DOMAIN cr_after = DOMAIN cr_before
             /\ \A u \in DOMAIN cr_before \ {cr_request.user_id} :
                   cr_after[u] = cr_before[u]
    /\ (cr_request.op = "reset" /\ ADMIN_RESET_KEY # None)
          => /\ cr_response.status = 200
             /\ cr_response.body.remaining = DEFAULT_CREDITS
             /\ cr_after[cr_request.user_id].remaining = DEFAULT_CREDITS
             /\ \A u \in DOMAIN cr_before \ {cr_request.user_id} :
                   cr_after[u] = cr_before[u]

\* A user who had spent a credit in a valid session, while another user
\* had a record, has been reset to 100.
C18_Witness ==
    /\ cr_request.op = "reset"
    /\ ADMIN_RESET_KEY # None
    /\ CLERK_API_KEY # None
    /\ ~DEV_SKIP_CLERK_VERIFY
    /\ cr_request.user_id = "user-123"
    /\ {"guest", "user-123"} \subseteq DOMAIN cr_before
    /\ cr_before["user-123"].remaining = DEFAULT_CREDITS - 1
    /\ cr_after["user-123"].remaining = DEFAULT_CREDITS

\* C26: on the file store, after any sequence of get-credits, spend,
\* per-user reset and reset-all requests, every stored record has
\* 0 <= remaining <= 100; and a spend that reaches the store for a user
\* whose remaining is 0 or less is answered 402 (spend_credit_record
\* returned None) and leaves the store as it was.
C26_RemainingInRange ==
    ~USE_MONGO =>
        /\ \A u \in DOMAIN credits :
              credits[u].remaining >= 0 /\ credits[u].remaining <= 100
        /\ (/\ SpendRequested
            /\ ValidSessionOfUser
            /\ cr_request.user_id \in DOMAIN cr_before
            /\ cr_before[cr_request.user_id].remaining <= 0)
              => /\ cr_response.status = 402
                 /\ cr_after = cr_before

\* On the file store a third request, a spend in a valid session, found
\* the user without credits and was answered 402.
C26_Witness ==
    /\ ~USE_MONGO
    /\ SpendRequested
    /\ ValidSessionOfUser
    /\ cr_requests = 3
    /\ cr_request.user_id \in DOMAIN cr_before
    /\ cr_before[cr_request.user_id].remaining = 0
    /\ cr_response.status = 402

\* The spends of the executor's threads for the user that returned a
\* record.
SpendsGranted(user_id) ==
    Cardinality({t \in Spenders : race_user[t] = user_id /\ race_result[t] # None})

\* Every thread has returned.
AllSpendsReturned == \A t \in Spenders : race_pc[t] = "done"

\* What the user had when the requests arrived (a user without record
\* starts from DEFAULT_CREDITS).
RemainingBefore(user_id) ==
    IF user_id \in DOMAIN cr_before THEN cr_before[user_id].remaining
    ELSE DEFAULT_CREDITS

\* C27 (as claimed): when k spends run concurrently in the threads of the
\* executor on the file store, no update is lost: once all have returned,
\* each user's remaining is what it was minus the number of spends granted
\* to that user; and a spend for one user never undoes a spend or a reset
\* of another user (a user reset meanwhile, for whom no spend ran, is left
\* at 100).
C27_NoLostUpdate ==
    AllSpendsReturned =>
        /\ race_reset = None =>
              \A u \in Users :
                  (u \in DOMAIN credits \/ SpendsGranted(u) > 0) =>
                      /\ u \in DOMAIN credits
                      /\ credits[u].remaining = RemainingBefore(u) - SpendsGranted(u)
        /\ \A u \in race_reset :
              (\A t \in Spenders : race_user[t] # u) =>
                  /\ u \in DOMAIN credits
                  /\ credits[u].remaining = DEFAULT_CREDITS

\* ---------------------------------------------------------------------
\* Claims about ask_math_ai
\* ---------------------------------------------------------------------

\* The questions of the requests that lie outside the curriculum.
OutOfScopeQuestions == {<<"recette de cuisine">>}

\* Retrieval gave the current request, an out-of-scope one, no context.
OutOfScopeNoContext ==
    /\ ask_question \in OutOfScopeQuestions
    /\ IsBlank(ask_context)

\* The explanation of the response ask_math_ai returned.
Explanation == ask_response.steps[1].explanation

C11_NoClientNoModelCall ==
    claude_client = None =>
        /\ ask_calls = 0 /\ ask_ocr_calls = 0
        /\ st_calls = 0 /\ st_ocr_calls = 0
        /\ ask_pc # "calling"
        /\ st_pc \notin {"metadata", "streaming"}
        /\ ask_pc = "returned"
              => /\ ask_response = UnavailableResponse(ask_question)
                 /\ ask_response.partie = "Erreur"
                 /\ ask_response.sources = <<>>
        /\ st_pc = "ended"
              => /\ Len(st_lines) = 1
                 /\ st_lines[1].kind = "json"
                 /\ st_lines[1].isdict
                 /\ DOMAIN st_lines[1].obj = {"error"}

\* Without a client, a request with an attachment whose retrieval found
\* sources has been answered.
C11_Witness ==
    /\ claude_client = None
    /\ ask_pc = "returned"
    /\ ask_attachment # None
    /\ ask_sources # <<>>
    /\ ask_response.sources = <<>>

\* C12: when the chat-model call fails inside ask_math_ai the function does
\* not raise: it returns a response whose single step carries the error
\* message as its explanation, with partie "Erreur", conclusion None and
\* empty sources, even if retrieval had found sources.
C12_ModelFailureReturned ==
    /\ (ask_pc = "raised") => ask_calls = 0
    /\ (ask_pc = "returned" /\ ask_calls = 1 /\ ask_reply = None)
          => /\ ask_response.partie = "Erreur"
             /\ Len(ask_response.steps) = 1
             /\ Explanation = <<"Erreur Claude: ", "overloaded_error">>
             /\ ask_response.conclusion = None
             /\ ask_response.sources = <<>>

\* The model call of a request whose retrieval found sources has failed.
C12_Witness ==
    /\ ask_pc = "returned"
    /\ ask_calls = 1
    /\ ask_reply = None
    /\ ask_sources # <<>>

\* The prompt of the current request holds text, piece by piece.
PromptHolds(text) ==
    \E n \in 1..Len(ask_prompt) :
        /\ n + Len(text) - 1 <= Len(ask_prompt)
        /\ SubSeq(ask_prompt, n, n + Len(text) - 1) = text

\* ask_math_ai has assembled the prompt of the current request.
PromptBuilt == ask_pc \in {"calling", "returned"} /\ ask_prompt # <<>>

\* C14: when an attachment is present and its OCR yields non-empty text,
\* that text is part of the query passed to search_curriculum (question,
\* newline, OCR text; the OCR text alone when the question is blank) and
\* stands verbatim in the image-content section of the prompt, together
\* with the recap instruction; when there is no attachment or the OCR
\* fails, the query is exactly the question and the prompt has no image
\* section.
C14_ImageTextInQueryAndPrompt ==
    /\ \A outcome \in ask_ocr :
          LET text == Strip(outcome.text) IN
          IF ~outcome.raises /\ text # <<>>
          THEN /\ ask_query = IF IsBlank(ask_question) THEN text
                              ELSE Strip(ask_question \o <<"\n">> \o text)
               /\ SubSeq(ask_query, Len(ask_query) - Len(text) + 1,
                         Len(ask_query)) = text
               /\ PromptBuilt =>
                     /\ PromptHolds(<<ImageSectionHead>> \o text \o <<ImageSectionTail>>)
                     /\ PromptHolds(ImageRecapInstruction)
          ELSE outcome.raises =>
               /\ ask_query = ask_question
               /\ PromptBuilt => /\ ~PromptHolds(<<ImageSectionHead>>)
                                 /\ ~PromptHolds(ImageRecapInstruction)
    /\ (ask_pc # "idle" /\ ask_attachment = None) =>
          /\ ask_query = ask_question
          /\ PromptBuilt => /\ ~PromptHolds(<<ImageSectionHead>>)
                            /\ ~PromptHolds(ImageRecapInstruction)

\* The OCR of the attachment of a request with a question gave text, and
\* the prompt has been assembled.
C14_Witness ==
    /\ PromptBuilt
    /\ ~IsBlank(ask_question)
    /\ ask_attachment # None
    /\ \E outcome \in ask_ocr : ~outcome.raises /\ Strip(outcome.text) # <<>>
    /\ ask_query # ask_question

\* C15 (as claimed): when a non-empty conversation history is passed to
\* ask_math_ai, the history text is included in the prompt sent to the
\* model.
C15_HistoryInPrompt ==
    (PromptBuilt /\ ask_history # <<>>) => PromptHolds(ask_history)

\* What stands in the context slot of the prompt, between the heading of
\* the context part and the separator that ends it.
ContextSlotHolds(slot) ==
    /\ Len(ask_prompt) >= 1 + Len(slot) + 1
    /\ SubSeq(ask_prompt, 1, 1 + Len(slot) + 1)
           = TutorPromptHead \o slot \o TutorPromptSeparator

\* C21: when the retrieved context is non-blank, the context slot of the
\* prompt holds it verbatim, hence for each surviving result the header
\* "--- source (p.page) ---" followed by its text; when the retrieved
\* context is empty or blank the slot holds the marker "N/A - aucun contenu
\* pertinent trouve."; the branch taken depends on the retrieval outcome
\* alone (not on the question or the attachment).
C21_ContextSlot ==
    PromptBuilt =>
        IF ~IsBlank(ask_context)
        THEN /\ ContextSlotHolds(ask_context)
             /\ ask_sources # <<>>
             /\ \A n \in 1..Len(ask_sources) :
                   PromptHolds(<<"\n--- ", ask_sources[n].source, " (p.",
                                 ask_sources[n].page, ") ---\n",
                                 ask_sources[n].text>>)
        ELSE /\ ContextSlotHolds(ContextMarkerNA)
             /\ ask_sources = <<>>

\* A prompt assembled for a request with an attachment after the index
\* returned two surviving results.
C21_Witness ==
    /\ PromptBuilt
    /\ ~IsBlank(ask_context)
    /\ Len(ask_sources) = 2
    /\ ask_attachment # None

\* The places of st_lines that hold a line with the key.
LinesWith(key) == {n \in 1..Len(st_lines) : key \in DOMAIN st_lines[n].obj}

\* C25 (as claimed): with a client configured, the first line of
\* ask_math_ai_stream is the metadata line, token lines come only after
\* it, there is at most one done line and at most one error line, and no
\* line follows a done line or an error line (in particular no error line
\* follows a done line).
C25_StreamLineOrder ==
    (claude_client # None /\ st_lines # <<>>) =>
        /\ LinesWith("metadata") = {1}
        /\ \A n \in LinesWith("token") : n > 1
        /\ Cardinality(LinesWith("done")) <= 1
        /\ Cardinality(LinesWith("error")) <= 1
        /\ \A n \in LinesWith("done") \cup LinesWith("error") : n = Len(st_lines)

\* ---------------------------------------------------------------------
\* Claims about /api/ask
\* ---------------------------------------------------------------------

\* The text of the answered request is missing, empty or only white space,
\* as a form field or in the JSON body.
RequestWithoutText ==
    /\ ep_pc = "answered"
    /\ TextMissing(ResolvedText(ep_request))

\* C28 (as claimed): a request to /api/ask whose text is missing, empty or
\* only white space (as a form field or in the JSON body) is answered with
\* status 400 and ask_math_ai is not called.
C28_MissingTextIs400 ==
    RequestWithoutText => (ep_response.status = 400 /\ ep_orch_calls = 0)

\* ---------------------------------------------------------------------
\* Claims about /api/ask-stream
\* ---------------------------------------------------------------------

\* The events generate has sent that carry the key.
EventsWith(key) ==
    {n \in 1..Len(sse) : "data" \in DOMAIN sse[n] /\ key \in DOMAIN sse[n].data}

\* The orchestrator has yielded an error line as its last line.
OrchestratorFailed ==
    /\ st_lines # <<>>
    /\ st_lines[Len(st_lines)].isdict
    /\ "error" \in DOMAIN st_lines[Len(st_lines)].obj

\* C13 (as claimed): when the chat-model call fails during a streaming
\* request, the error line yielded by ask_math_ai_stream reaches the client
\* of /api/ask-stream as an SSE error event.
C13_StreamErrorSurfaced ==
    (gen_pc = "finished" /\ st_calls = 1 /\ OrchestratorFailed)
        => \E n \in EventsWith("error") :
              sse[n].data.error = st_lines[Len(st_lines)].obj.error

\* The orchestrator has yielded a done line as its last line.
OrchestratorSucceeded ==
    /\ st_lines # <<>>
    /\ st_lines[Len(st_lines)].isdict
    /\ "done" \in DOMAIN st_lines[Len(st_lines)].obj

\* C19 (as claimed): in /api/ask-stream the credit is charged at most once
\* per request, only after the answer stream has ended, and only when the
\* stream completed successfully: a request whose model call failed, or
\* whose generator raised, is not charged; a 'charged' event with the
\* remaining credits is sent exactly when the charge was performed.
C19_ChargedOnlyOnSuccess ==
    /\ gen_charges <= 1
    /\ gen_charges = 1 => gen_pc = "finished" /\ st_pc = "ended"
    /\ gen_charges = 1 => OrchestratorSucceeded
    /\ gen_pc = "failed" => gen_charges = 0
    /\ Cardinality(EventsWith("charged")) = gen_charges
    /\ \A n \in EventsWith("charged") :
          \E u \in DOMAIN credits : sse[n].data.remaining = credits[u].remaining

\* The lines of a sequence that json.loads accepts or that are blank.
RECURSIVE WithoutGarbage(_)
WithoutGarbage(lines) ==
    IF lines = <<>> THEN <<>>
    ELSE IF Head(lines).kind = "garbage" THEN WithoutGarbage(Tail(lines))
    ELSE <<Head(lines)>> \o WithoutGarbage(Tail(lines))

\* The loop of generate over lines, from the locals loc on: the events
\* yielded and the locals when the loop ends or a turn raises.
RECURSIVE Loop(_, _, _)
Loop(lines, loc, events) ==
    IF lines = <<>> THEN [events |-> events, loc |-> loc]
    ELSE LET out == HandleLine(Head(lines), loc) IN
         IF out.raises THEN [events |-> events, loc |-> loc]
         ELSE Loop(Tail(lines), out.loc, events \o out.events)

\* The lines generate has read.
LinesRead == SubSeq(st_lines, 1, gen_i)

\* C20: in the /api/ask-stream generator a line of the orchestrator that
\* is not parseable JSON is skipped and does not abort the stream: what
\* the client is sent, and the locals of generate, are what they would be
\* had the unparseable lines never been yielded, so every later token,
\* metadata and done line is still forwarded, in order.
C20_UnparseableLineSkipped ==
    gen_pc \in {"reading", "finished", "failed"} =>
        LET clean == Loop(WithoutGarbage(LinesRead), GenLocals0, <<>>) IN
        /\ Len(sse) >= 1 + Len(clean.events)
        /\ SubSeq(sse, 2, 1 + Len(clean.events)) = clean.events
        /\ gen_pc = "reading" => Len(sse) = 1 + Len(clean.events)
        /\ GenLocals = clean.loc
        /\ (gen_pc = "finished") => gen_i = Len(st_lines)
        /\ (gen_pc = "failed" /\ st_pc = "ended")
              => /\ gen_i < Len(st_lines)
                 /\ st_lines[gen_i + 1].kind # "garbage"

\* generate has finished a stream that began with an unparseable line and
\* went on with a token line and a done line, and both were forwarded.
C20_Witness ==
    /\ gen_pc = "finished"
    /\ Len(st_lines) = 3
    /\ st_lines[1] = GarbageLine
    /\ st_lines[2] = TokenLine("La derivee de x^2")
    /\ st_lines[3] = DoneLine(<<>>)
    /\ EventsWith("token") = {2}
    /\ 3 \in EventsWith("done")

\* ---------------------------------------------------------------------
\* Specifications
\* ---------------------------------------------------------------------

\* The components that are modelled one at a time, at rest.
LaterQuiet == PoolQuiet /\ EndpointIdle /\ RaceIdle /\ InitDbIdle

Init ==
    SearchInit /\ ScanInit /\ IngestInit /\ AskInit /\ StreamIdle /\ CreditsInit
    /\ GenInit /\ LaterQuiet

Next ==
    SearchNext \/ ScanNext \/ IngestNext \/ AskNext \/ StreamNext \/ CreditsNext
    \/ GenNext

Spec == Init /\ [][Next]_vars

InitIngest == IngestInit /\ SearchQuiet /\ ScanQuiet /\ AskQuiet /\ StreamIdle /\ CreditsQuiet /\ GenInit /\ LaterQuiet

SpecIngest == InitIngest /\ [][IngestNext]_vars

InitScan == ScanInit /\ SearchQuiet /\ IngestQuiet /\ AskQuiet /\ StreamIdle /\ CreditsQuiet /\ GenInit /\ LaterQuiet

InitAsk == AskInit /\ SearchInit /\ ScanQuiet /\ IngestQuiet /\ StreamIdle /\ CreditsQuiet /\ GenInit /\ LaterQuiet

\* Both entry points of the orchestrator: ask_math_ai and ask_math_ai_stream.
AskOrStream == AskNext \/ StreamNext

SpecAsk == InitAsk /\ [][AskOrStream]_vars

SpecScan == InitScan /\ [][ScanNext]_vars

InitSearch == SearchInit /\ ScanQuiet /\ IngestQuiet /\ AskQuiet /\ StreamIdle /\ CreditsQuiet /\ GenInit /\ LaterQuiet

SpecSearch == InitSearch /\ [][SearchNext]_vars

InitCredits ==
    CreditsInit /\ SearchQuiet /\ ScanQuiet /\ IngestQuiet /\ AskQuiet /\ StreamIdle
    /\ GenInit /\ LaterQuiet

SpecCredits == InitCredits /\ [][CreditsNext]_vars

\* The server with an index and one user on record, before any request to
\* /api/ask-stream.
InitGen ==
    /\ GenInit /\ StreamIdle /\ AskInit /\ ScanQuiet /\ IngestQuiet
    /\ collection = Some(CollectionName)
    /\ SearchIdle
    /\ credits \in {r \in InitialStores : DOMAIN r \subseteq {"user-123"}}
    /\ today = 0
    /\ DEV_SKIP_CLERK_VERIFY \in BOOLEAN
    /\ CLERK_API_KEY \in {None, Some("sk_test")}
    /\ USE_MONGO \in BOOLEAN
    /\ ADMIN_RESET_KEY = None
    /\ CreditsIdle
    /\ LaterQuiet

SpecGen == InitGen /\ [][GenNext]_vars

\* The server before a run of generate over a stand-in generator.
InitLines ==
    /\ GenInit /\ StreamIdle /\ AskQuiet /\ SearchQuiet /\ ScanQuiet /\ IngestQuiet
    /\ CreditsQuiet /\ LaterQuiet

\* generate over the lines of a stand-in generator.
LinesNext ==
    \/ GenOverLines
    \/ GenLine
    \/ GenFinish
    \/ GenFails

SpecLines == InitLines /\ [][LinesNext]_vars

\* One scanned PDF of two groups, read well on every page before the first
\* call, and a caller's pool width.
InitPool ==
    /\ num_pages = SPLIT_SIZE + 1
    /\ ocr = [p \in VaryingPages(num_pages) |-> "v1"]
    /\ ScanIdle
    /\ PoolInit
    /\ SearchQuiet /\ IngestQuiet /\ AskQuiet /\ StreamIdle /\ CreditsQuiet /\ GenInit
    /\ EndpointIdle /\ RaceIdle /\ InitDbIdle

SpecPool == InitPool /\ [][PoolNext]_vars

\* The server before a request to /api/ask.
InitEndpoint ==
    /\ EndpointIdle /\ AskInit /\ SearchInit /\ StreamIdle /\ GenInit
    /\ ScanQuiet /\ IngestQuiet /\ CreditsQuiet /\ PoolQuiet /\ RaceIdle /\ InitDbIdle

SpecEndpoint == InitEndpoint /\ [][EndpointNext]_vars

\* The server in file mode with a credits.json on disk, before requests
\* that overlap.
InitRace ==
    /\ credits \in InitialStores
    /\ today = 0
    /\ DEV_SKIP_CLERK_VERIFY = FALSE
    /\ CLERK_API_KEY = None
    /\ USE_MONGO = FALSE
    /\ ADMIN_RESET_KEY = Some("admin")
    /\ CreditsIdle
    /\ RaceIdle
    /\ SearchQuiet /\ ScanQuiet /\ IngestQuiet /\ AskQuiet /\ StreamIdle /\ GenInit
    /\ PoolQuiet /\ EndpointIdle /\ InitDbIdle

SpecRace == InitRace /\ [][RaceNext]_vars

\* A deployment before its first start: a curriculum file and no index.
InitInitDb ==
    /\ IngestInit /\ InitDbIdle
    /\ SearchQuiet /\ ScanQuiet /\ AskQuiet /\ StreamIdle /\ CreditsQuiet /\ GenInit
    /\ PoolQuiet /\ EndpointIdle /\ RaceIdle

SpecInitDb == InitInitDb /\ [][InitDbNext]_vars

====
